---- MODULE Spec2Model ----
(***************************************************************************)
(* Video processing dispatch of TuboCMS: the job record (apps.videos       *)
(* Video), the post-save trigger, the periodic sweep, the admin            *)
(* bulk-trigger, the retry trigger, the broker queue and the Celery        *)
(* worker that executes process_video_async.                               *)
(*                                                                         *)
(* Texts (error messages) are sequences of non-empty tokens; the empty     *)
(* text "" is << >>.  One clock unit is one hour.                          *)
(*                                                                         *)
(* Spec runs the edit request as one step; SpecStale runs it as two steps  *)
(* (load, save), so that the instance it saves can be out of date.         *)
(***************************************************************************)
EXTENDS Integers, Sequences, FiniteSets, Bags, TLC

(* ---------------------------------------------------------------------- *)
(* Bound of the model: dispatch threads, queued runs and executing runs a  *)
(* job may have at one time                                                *)
(* ---------------------------------------------------------------------- *)
MaxRuns == 2

(* ---------------------------------------------------------------------- *)
(* Program constants                                                       *)
(* ---------------------------------------------------------------------- *)
StuckHours == 2
SweepLimit == 20
WorkerConcurrency == 2

Jobs == {1}
Files == {"a.mp4"}
NoFile == "None"
Profiles == <<"720p">>

FullSave == {"processing_status", "processing_progress", "processing_error",
             "converted_files", "temp_video_file", "updated_at"}

VARIABLES
    created,    \* ids of the Video rows that exist
    db,         \* db[j]: the Video row of job j
    idle,       \* idle[j]: whole hours since updated_at of row j, counted
                \* up to StuckHours + 1 (all the sweep's cutoff can tell)
    storage,    \* names of the source files present in the media storage
    queue,      \* queue[j]: process_video_async messages of job j in the broker
    threads,    \* threads[j]: background dispatch threads started, not yet run
    running,    \* the runs the Celery worker is executing: a bag of Run records
    editor,     \* the Video instance an edit request has loaded
    sweep_pc,   \* position of process_pending_videos
    last        \* the operation that made the last step

VARIABLES
    selector,   \* one call of get_suitable_profiles: its arguments and result
    encoder,    \* one call of EncodingService.encode_multiple
    pipeline,   \* one run of ProcessingPipeline.process
    monitor,    \* the alert rule, its alerts and the evaluation ticks
    saves,      \* saves of Video records seen by the signal handlers
    priority    \* one call of get_priority_for_video

VARIABLES
    processing, \* one call of VideoProcessingService.process_video
    reports,    \* the percent values one processing run has reported
    settings,   \* the MetadataExtractionSettings records and their saves
    manifest,   \* one call of a master-manifest generator
    sweeper,    \* the pending jobs process_pending_videos sweeps over
    notify      \* one alert with its notification sends and status calls

(* the variables of the remaining services                                 *)
services == <<processing, reports, settings, manifest, sweeper, notify>>

(* the variables outside the dispatch system                               *)
aux == <<selector, encoder, pipeline, monitor, saves, priority, services>>

(* the variables of the dispatch system                                    *)
dispatch == <<created, db, idle, storage, queue, threads, running, editor,
              sweep_pc, last>>

vars == <<created, db, idle, storage, queue, threads, running, editor,
          sweep_pc, last, aux>>

EmptyText == << >>

NewRow ==
    [processing_status |-> "pending", processing_progress |-> 0,
     processing_error |-> EmptyText, converted_files |-> << >>,
     temp_video_file |-> NoFile]

(* a run in execution: the job and the file reference of the instance that *)
(* process_video loaded                                                    *)
Run(j, f) == [job |-> j, file |-> f]

NoInstance == [job |-> 0, row |-> NewRow]

(* last: the operation, the jobs it acted on, the jobs whose enqueue       *)
(* attempt failed in it, and whether it did what it was asked to do.       *)
Op(name, js, failed, ok) == [op |-> name, jobs |-> js, failed |-> failed, ok |-> ok]

Queued(j) == queue[j]

Executing(j) ==
    BagCardinality([r \in {u \in BagToSet(running) : u.job = j} |-> running[r]])

Enqueue(q, js) == [j \in Jobs |-> IF j \in js THEN q[j] + 1 ELSE q[j]]

(* the bound on the runs of a job that are in flight                       *)
Capped == \A j \in Jobs : threads[j] + Queued(j) + Executing(j) <= MaxRuns

(* Django storage.get_available_name: a name not yet taken in the storage. *)
HasFreeName(st) == \E f \in Files : f \notin st
FreeName(st) == CHOOSE f \in Files : f \notin st

(* ---------------------------------------------------------------------- *)
(* Model.save and the post-save trigger                                    *)
(* ---------------------------------------------------------------------- *)
SavedRow(row, inst, fields) ==
    [f \in DOMAIN row |-> IF f \in fields THEN inst[f] ELSE row[f]]

(* video_post_save: the decision to start processing                       *)
ShouldProcess(is_created, old_file, new_file, file_exists, processing_status) ==
    \/ is_created /\ new_file # NoFile /\ file_exists
    \/ new_file # NoFile /\ file_exists
         /\ (old_file = NoFile \/ old_file # new_file)
    \/ new_file # NoFile /\ file_exists /\ processing_status = "pending"

(* video_post_save: the trigger starts a run (flips the status, starts the *)
(* background thread) unless the instance is processing or completed.      *)
TriggerFires(is_created, old_file, inst, st) ==
    /\ ShouldProcess(is_created, old_file, inst.temp_video_file,
                     inst.temp_video_file \in st, inst.processing_status)
    /\ inst.processing_status \notin {"processing", "completed"}

(* pre_save + save + post_save of instance inst over the stored row:       *)
(* video_pre_save reads the stored file name, Model.save writes the        *)
(* update_fields, video_post_save flips the status when it fires.          *)
(* Result: the stored row, whether a dispatch thread was started, and      *)
(* whether updated_at was written.                                         *)
Saved(row, inst, fields, is_created, st) ==
    LET old_file == IF is_created THEN NoFile ELSE row.temp_video_file
        fired == TriggerFires(is_created, old_file, inst, st)
        saved == SavedRow(row, inst, fields \ {"updated_at"})
    IN  [row |-> IF fired THEN [saved EXCEPT !.processing_status = "processing"]
                 ELSE saved,
         fired |-> fired,
         touched |-> "updated_at" \in fields]

Bump(thr, j, fired) == IF fired THEN [thr EXCEPT ![j] = @ + 1] ELSE thr

Touch(idl, j, touched) == IF touched THEN [idl EXCEPT ![j] = 0] ELSE idl

(* ---------------------------------------------------------------------- *)
(* Initial state: no video uploaded                                        *)
(* ---------------------------------------------------------------------- *)
DispatchInit ==
    /\ created = {}
    /\ db = [j \in Jobs |-> NewRow]
    /\ idle = [j \in Jobs |-> 0]
    /\ storage = {}
    /\ queue = [j \in Jobs |-> 0]
    /\ threads = [j \in Jobs |-> 0]
    /\ running = EmptyBag
    /\ editor = NoInstance
    /\ sweep_pc = "idle"
    /\ last = Op("init", {}, {}, TRUE)

(* nothing called yet outside the dispatch system                          *)
NotCalled == [pc |-> "idle"]

ServicesNotCalled ==
    /\ processing = NotCalled
    /\ reports = NotCalled
    /\ settings = NotCalled
    /\ manifest = NotCalled
    /\ sweeper = NotCalled
    /\ notify = NotCalled

Init ==
    /\ DispatchInit
    /\ selector = NotCalled
    /\ encoder = NotCalled
    /\ pipeline = NotCalled
    /\ monitor = NotCalled
    /\ saves = NotCalled
    /\ priority = NotCalled
    /\ ServicesNotCalled

(* video_upload / admin add: a new Video row, with or without a file       *)
UploadVideo(j, with_file) ==
    /\ sweep_pc = "idle"
    /\ j \notin created
    /\ with_file => HasFreeName(storage)
    /\ LET f == IF with_file THEN FreeName(storage) ELSE NoFile
           st == IF with_file THEN storage \cup {f} ELSE storage
           inst == [NewRow EXCEPT !.temp_video_file = f]
           sv == Saved(NewRow, inst, FullSave, TRUE, st)
       IN  /\ storage' = st
           /\ db' = [db EXCEPT ![j] = sv.row]
           /\ idle' = Touch(idle, j, sv.touched)
           /\ threads' = Bump(threads, j, sv.fired)
           /\ last' = Op("upload", {j}, {}, sv.fired)
    /\ created' = created \cup {j}
    /\ UNCHANGED <<queue, running, editor, sweep_pc, aux>>
    /\ Capped'

(* video_edit / admin change view: the form's change to the file of the    *)
(* loaded instance (kept, cleared, or replaced by a new upload)            *)
Edited(row, change, st) ==
    [row EXCEPT !.temp_video_file =
        CASE change = "keep" -> row.temp_video_file
          [] change = "clear" -> NoFile
          [] OTHER -> FreeName(st)]

(* video_edit as one step: the request loads the instance, applies the     *)
(* form and saves every field.                                             *)
VideoEdit(j, change) ==
    /\ sweep_pc = "idle"
    /\ j \in created
    /\ change = "upload" => HasFreeName(storage)
    /\ LET inst == Edited(db[j], change, storage)
           st == IF change = "upload" THEN storage \cup {inst.temp_video_file}
                 ELSE storage
           sv == Saved(db[j], inst, FullSave, FALSE, st)
       IN  /\ storage' = st
           /\ db' = [db EXCEPT ![j] = sv.row]
           /\ idle' = Touch(idle, j, sv.touched)
           /\ threads' = Bump(threads, j, sv.fired)
           /\ last' = Op("save", {j}, {}, sv.fired)
    /\ UNCHANGED <<created, queue, running, editor, sweep_pc, aux>>
    /\ Capped'

(* video_edit as two steps, other handlers running in between: the request *)
(* loads the instance ...                                                  *)
EditorLoad(j) ==
    /\ sweep_pc = "idle"
    /\ j \in created
    /\ editor = NoInstance
    /\ editor' = [job |-> j, row |-> db[j]]
    /\ last' = Op("load", {j}, {}, TRUE)
    /\ UNCHANGED <<created, db, idle, storage, queue, threads, running, sweep_pc, aux>>

(* ... and later applies the form and saves every field of the instance it *)
(* holds.                                                                  *)
EditorSave(change) ==
    /\ sweep_pc = "idle"
    /\ editor # NoInstance
    /\ change = "upload" => HasFreeName(storage)
    /\ LET j == editor.job
           inst == Edited(editor.row, change, storage)
           st == IF change = "upload" THEN storage \cup {inst.temp_video_file}
                 ELSE storage
           sv == Saved(db[j], inst, FullSave, FALSE, st)
       IN  /\ storage' = st
           /\ db' = [db EXCEPT ![j] = sv.row]
           /\ idle' = Touch(idle, j, sv.touched)
           /\ threads' = Bump(threads, j, sv.fired)
           /\ last' = Op("stale_save", {j}, {}, sv.fired)
    /\ editor' = NoInstance
    /\ UNCHANGED <<created, queue, running, sweep_pc, aux>>
    /\ Capped'

(* video_post_save.run_processing: the background thread enqueues the run  *)
(* (enqueued = TRUE) or, when that raises, puts the job back to pending.   *)
DispatchThread(j, enqueued) ==
    /\ sweep_pc = "idle"
    /\ threads[j] > 0
    /\ threads' = [threads EXCEPT ![j] = @ - 1]
    /\ IF enqueued
       THEN /\ queue' = Enqueue(queue, {j})
            /\ db' = db
       ELSE /\ queue' = queue
            /\ db' = [db EXCEPT ![j].processing_status = "pending"]
    /\ last' = Op("thread", {j}, IF enqueued THEN {} ELSE {j}, enqueued)
    /\ UNCHANGED <<created, idle, storage, running, editor, sweep_pc, aux>>

(* ---------------------------------------------------------------------- *)
(* process_pending_videos                                                  *)
(* ---------------------------------------------------------------------- *)
ResetText == <<"Reset: stuck in processing for >2 hours">>
EnqueueErrorText == <<"Enqueue error: ", "broker unavailable">>

(* step 1 filter: processing_status="processing", updated_at < now - 2h    *)
IsStuck(row, idle_hours) ==
    row.processing_status = "processing" /\ idle_hours > StuckHours

StuckVideos == {j \in created : IsStuck(db[j], idle[j])}

ResetInstance(row) ==
    [row EXCEPT !.processing_status = "pending", !.processing_error = ResetText]

(* the save of one stuck video in step 1                                   *)
ResetSaved(row, st) ==
    Saved(row, ResetInstance(row),
          {"processing_status", "processing_error", "updated_at"}, FALSE, st)

(* step 1: every stuck video is reset and saved                            *)
SweepReset ==
    /\ sweep_pc = "idle"
    /\ db' = [j \in Jobs |-> IF j \in StuckVideos
                             THEN ResetSaved(db[j], storage).row ELSE db[j]]
    /\ idle' = [j \in Jobs |-> IF j \in StuckVideos THEN 0 ELSE idle[j]]
    /\ threads' = [j \in Jobs |->
                     IF j \in StuckVideos /\ ResetSaved(db[j], storage).fired
                     THEN threads[j] + 1 ELSE threads[j]]
    /\ sweep_pc' = "pickup"
    /\ last' = Op("sweep_reset", StuckVideos, {}, StuckVideos # {})
    /\ UNCHANGED <<created, storage, queue, running, editor, aux>>
    /\ Capped'

(* the n rows of S created first (ids are given in creation order)         *)
FirstN(S, n) == {j \in S : Cardinality({k \in S : k < j}) < n}

(* step 2 query: pending, file reference not null and not "", oldest first *)
Candidates(limit) ==
    FirstN({j \in created : /\ db[j].processing_status = "pending"
                            /\ db[j].temp_video_file # NoFile}, limit)

(* step 2: candidates whose file exists are flipped to processing and      *)
(* enqueued; an enqueue that raises puts the job back to pending.          *)
SweepPickup(failed) ==
    /\ sweep_pc = "pickup"
    /\ LET found == {j \in Candidates(SweepLimit) : db[j].temp_video_file \in storage}
           started == found \ failed
       IN  /\ failed \subseteq found
           /\ db' = [j \in Jobs |->
                 IF j \in started
                 THEN [db[j] EXCEPT !.processing_status = "processing"]
                 ELSE IF j \in failed
                 THEN [db[j] EXCEPT !.processing_status = "pending",
                                    !.processing_error = EnqueueErrorText]
                 ELSE db[j]]
           /\ idle' = [j \in Jobs |-> IF j \in found THEN 0 ELSE idle[j]]
           /\ queue' = Enqueue(queue, started)
           /\ last' = Op("sweep_pickup", found, failed, started # {})
    /\ sweep_pc' = "idle"
    /\ UNCHANGED <<created, storage, threads, running, editor, aux>>
    /\ Capped'

(* ---------------------------------------------------------------------- *)
(* VideoAdmin.start_processing over the selected rows                      *)
(* ---------------------------------------------------------------------- *)
AdminEligible(row, st) ==
    /\ row.temp_video_file # NoFile
    /\ row.processing_status \notin {"processing", "completed"}
    /\ row.temp_video_file \in st

(* the row of one eligible video after the action: the status is saved as  *)
(* processing, the task is enqueued, and when that raises the status is    *)
(* saved as pending again (both saves run the post-save trigger).          *)
AdminStarted(row, st) ==
    Saved(row, [row EXCEPT !.processing_status = "processing"],
          {"processing_status"}, FALSE, st)

AdminFellBack(row, st) ==
    LET first == AdminStarted(row, st).row
    IN  Saved(first, [first EXCEPT !.processing_status = "pending"],
              {"processing_status"}, FALSE, st)

StartProcessing(selection, failed) ==
    /\ sweep_pc = "idle"
    /\ selection # {}
    /\ selection \subseteq created
    /\ LET eligible == {j \in selection : AdminEligible(db[j], storage)}
           started == eligible \ failed
           a(j) == AdminStarted(db[j], storage)
           b(j) == AdminFellBack(db[j], storage)
       IN  /\ failed \subseteq eligible
           /\ db' = [j \in Jobs |->
                 IF j \in started THEN a(j).row
                 ELSE IF j \in failed THEN b(j).row
                 ELSE db[j]]
           /\ threads' = [j \in Jobs |->
                 threads[j]
                 + (IF j \in eligible /\ a(j).fired THEN 1 ELSE 0)
                 + (IF j \in failed /\ b(j).fired THEN 1 ELSE 0)]
           /\ queue' = Enqueue(queue, started)
           /\ last' = Op("admin", eligible, failed, started # {})
    /\ UNCHANGED <<created, idle, storage, running, editor, sweep_pc, aux>>
    /\ Capped'

(* ---------------------------------------------------------------------- *)
(* retry_video_processing                                                  *)
(* ---------------------------------------------------------------------- *)
RetryAccepted(row) ==
    /\ row.processing_status \in {"failed", "error"}
    /\ row.temp_video_file # NoFile

RetryInstance(row) ==
    [row EXCEPT !.processing_status = "pending",
                !.processing_progress = 0,
                !.processing_error = EmptyText]

RetrySaved(row, st) ==
    Saved(row, RetryInstance(row),
          {"processing_status", "processing_progress", "processing_error"},
          FALSE, st)

RetryVideoProcessing(j, enqueued) ==
    /\ sweep_pc = "idle"
    /\ j \in created
    /\ IF RetryAccepted(db[j])
       THEN /\ db' = [db EXCEPT ![j] = RetrySaved(db[j], storage).row]
            /\ threads' = Bump(threads, j, RetrySaved(db[j], storage).fired)
            /\ queue' = IF enqueued THEN Enqueue(queue, {j}) ELSE queue
            /\ last' = Op("retry", {j}, IF enqueued THEN {} ELSE {j}, TRUE)
       ELSE /\ enqueued
            /\ UNCHANGED <<db, threads, queue>>
            /\ last' = Op("retry", {j}, {}, FALSE)
    /\ UNCHANGED <<created, idle, storage, running, editor, sweep_pc, aux>>
    /\ Capped'

(* ---------------------------------------------------------------------- *)
(* Environment: time passes, a source file disappears from the storage     *)
(* ---------------------------------------------------------------------- *)
Tick ==
    /\ sweep_pc = "idle"
    /\ \E j \in Jobs : idle[j] <= StuckHours
    /\ idle' = [j \in Jobs |-> IF idle[j] <= StuckHours THEN idle[j] + 1 ELSE idle[j]]
    /\ last' = Op("tick", {}, {}, TRUE)
    /\ UNCHANGED <<created, db, storage, queue, threads, running, editor, sweep_pc, aux>>

LoseFile(f) ==
    /\ sweep_pc = "idle"
    /\ f \in storage
    /\ storage' = storage \ {f}
    /\ last' = Op("lose_file", {}, {}, TRUE)
    /\ UNCHANGED <<created, db, idle, queue, threads, running, editor, sweep_pc, aux>>

(* ---------------------------------------------------------------------- *)
(* ProcessingPipeline.process: the result of one pipeline run              *)
(* ---------------------------------------------------------------------- *)
FailureResult(stage, message) ==
    [success |-> FALSE, error_stage |-> stage, error_message |-> message,
     encoded_files |-> << >>]

(* validation_error: the text _validate returned (<< >> for None);        *)
(* results: the per-profile EncodingResult list of _encode_video;         *)
(* raised: an exception escaped a stage (its text is raised_text).         *)
PipelineProcess(validation_error, poster_ok, preview_ok, results, raised, raised_text) ==
    IF raised THEN FailureResult("initialization", raised_text)
    ELSE IF validation_error # EmptyText
    THEN FailureResult("validation", validation_error)
    ELSE IF ~poster_ok
    THEN FailureResult("poster_extraction", <<"Poster extraction failed for video">>)
    ELSE IF ~preview_ok
    THEN FailureResult("preview_generation", <<"Preview generation failed for video">>)
    ELSE IF \A i \in 1..Len(results) : ~results[i].success
    THEN FailureResult("encoding", <<"All encoding profiles failed">>)
    ELSE [success |-> TRUE, error_stage |-> "", error_message |-> EmptyText,
          encoded_files |-> results]

(* the pipeline results a run of the dispatch model draws from: every      *)
(* profile encoded, or none                                                *)
EncodingResults(ok) ==
    [i \in 1..Len(Profiles) |-> [resolution |-> Profiles[i], success |-> ok]]

PipelineResults ==
    {PipelineProcess(EmptyText, TRUE, TRUE, EncodingResults(ok), FALSE, EmptyText) :
        ok \in BOOLEAN}

(* ---------------------------------------------------------------------- *)
(* VideoProcessingService.process_video and process_video_async            *)
(* ---------------------------------------------------------------------- *)
(* _get_video_path: the stored file, else any .mp4 under videos/tmp        *)
VideoPaths(row, st) ==
    IF row.temp_video_file # NoFile /\ row.temp_video_file \in st
    THEN {row.temp_video_file}
    ELSE st

(* the preconditions process_video checks before it runs the pipeline      *)
Ready(row, st, settings_active, profiles_active) ==
    /\ row.temp_video_file # NoFile
    /\ VideoPaths(row, st) # {}
    /\ settings_active
    /\ profiles_active

(* process_video_async, except Exception: the row is loaded again and      *)
(* saved with status "error" and "Error: <text>" plus the traceback        *)
TaskErrorText(text) == <<"Error: ">> \o text \o <<"\n\n", "Traceback">>

TaskFailed(row, st, text) ==
    Saved(row, [row EXCEPT !.processing_status = "error",
                           !.processing_error = TaskErrorText(text)],
          {"processing_status", "processing_error"}, FALSE, st)

(* the worker takes a message: process_video loads the row and checks the  *)
(* preconditions; when one is missing it returns False and the task ends   *)
(* (task_raised: reporting the task state raised on the way out).          *)
WorkerStart(j, settings_active, profiles_active, task_raised) ==
    /\ sweep_pc = "idle"
    /\ queue[j] > 0
    /\ BagCardinality(running) < WorkerConcurrency
    /\ queue' = [queue EXCEPT ![j] = @ - 1]
    /\ IF Ready(db[j], storage, settings_active, profiles_active)
       THEN /\ ~task_raised
            /\ running' = running (+) SetToBag({Run(j, db[j].temp_video_file)})
            /\ UNCHANGED <<db, threads>>
            /\ last' = Op("run_start", {j}, {}, TRUE)
       ELSE /\ running' = running
            /\ LET tf == TaskFailed(db[j], storage, <<"backend unavailable">>)
               IN  /\ db' = [db EXCEPT ![j] = IF task_raised THEN tf.row ELSE @]
                   /\ threads' = Bump(threads, j, task_raised /\ tf.fired)
            /\ last' = Op("run_end", {j}, {}, FALSE)
    /\ UNCHANGED <<created, idle, storage, editor, sweep_pc, aux>>
    /\ Capped'

(* process_video, result.success false: status "failed" with              *)
(* "<stage>: <message>" saved from the instance the run loaded             *)
FailedSaved(row, run, result, st) ==
    Saved(row, [row EXCEPT !.processing_status = "failed",
                           !.processing_error =
                               <<result.error_stage, ": ">> \o result.error_message,
                           !.temp_video_file = run.file],
          {"processing_status", "processing_error"}, FALSE, st)

(* _handle_error: the row is loaded again and saved with status "error"    *)
(* and the exception's text                                                *)
HandleError(row, st, error_message) ==
    Saved(row, [row EXCEPT !.processing_status = "error",
                           !.processing_error = error_message],
          {"processing_status", "processing_error"}, FALSE, st)

(* _save_results: the resolutions of the successful results whose profile  *)
(* row the lookup finds (found), in result order                           *)
ConvertedFiles(encoded_files, found) ==
    LET kept == SelectSeq(encoded_files,
                          LAMBDA r : r.success /\ r.resolution \in found)
    IN  [i \in 1..Len(kept) |-> kept[i].resolution]

(* _save_results, final save: completed, progress 100, error cleared,      *)
(* the temp file reference cleared by _cleanup_temp_file                   *)
ResultsSaved(row, run, result, found, st) ==
    Saved(row, [row EXCEPT !.converted_files = ConvertedFiles(result.encoded_files, found),
                           !.temp_video_file = NoFile,
                           !.processing_status = "completed",
                           !.processing_error = EmptyText,
                           !.processing_progress = 100],
          {"converted_files", "temp_video_file", "processing_status",
           "processing_error", "processing_progress"}, FALSE, st)

(* How a run ends.  result: what the pipeline returned; found: the         *)
(* resolutions that still have a profile row when the results are saved;   *)
(* save_raised: where _save_results raised ("none", "early" before the     *)
(* temp file is removed, "late" in the final save); raised: an exception   *)
(* escaped to process_video's handler, with text raised_text;              *)
(* task_raised: an exception escaped to the task's handler.                *)
Ending(result, found, save_raised, raised, raised_text, task_raised) ==
    [result |-> result, found |-> found, save_raised |-> save_raised,
     raised |-> raised, raised_text |-> raised_text, task_raised |-> task_raised]

AllFound == {Profiles[i] : i \in 1..Len(Profiles)}
Succeeded == PipelineProcess(EmptyText, TRUE, TRUE, EncodingResults(TRUE), FALSE, EmptyText)

Endings ==
    {Ending(r, {}, "none", FALSE, EmptyText, t) :
        r \in {x \in PipelineResults : ~x.success}, t \in BOOLEAN}
    \cup {Ending(r, f, "none", FALSE, EmptyText, t) :
        r \in {x \in PipelineResults : x.success}, f \in SUBSET AllFound,
        t \in BOOLEAN}
    \cup {Ending(Succeeded, AllFound, s, FALSE, EmptyText, FALSE) : s \in {"early", "late"}}
    \cup {Ending(Succeeded, AllFound, "none", TRUE, x, FALSE) :
        x \in {EmptyText, <<"database is locked">>}}

WorkerFinish(run, e) ==
    /\ sweep_pc = "idle"
    /\ BagIn(run, running)
    /\ running' = running (-) SetToBag({run})
    /\ LET j == run.job
           removed == IF run.file # NoFile THEN storage \ {run.file} ELSE storage
           unsaved == [row |-> db[j], fired |-> FALSE, touched |-> FALSE]
           phase ==
             IF e.raised
             THEN [sv |-> HandleError(db[j], storage, e.raised_text),
                   st |-> storage, ok |-> FALSE]
             ELSE IF ~e.result.success
             THEN [sv |-> FailedSaved(db[j], run, e.result, storage),
                   st |-> storage, ok |-> FALSE]
             ELSE IF e.save_raised = "early"
             THEN [sv |-> unsaved, st |-> storage, ok |-> FALSE]
             ELSE IF e.save_raised = "late"
             THEN [sv |-> unsaved, st |-> removed, ok |-> FALSE]
             ELSE [sv |-> ResultsSaved(db[j], run, e.result, e.found, removed),
                   st |-> removed, ok |-> TRUE]
           tf == TaskFailed(phase.sv.row, phase.st, <<"backend unavailable">>)
       IN  /\ storage' = phase.st
           /\ db' = [db EXCEPT ![j] = IF e.task_raised THEN tf.row ELSE phase.sv.row]
           /\ threads' = Bump(Bump(threads, j, phase.sv.fired), j,
                              e.task_raised /\ tf.fired)
           /\ last' = Op("run_end", {j}, {}, phase.ok /\ ~e.task_raised)
    /\ UNCHANGED <<created, idle, queue, editor, sweep_pc, aux>>
    /\ Capped'

(* process_pending_videos runs its two steps without another handler in    *)
(* between (every other action waits for sweep_pc = "idle").               *)
Next ==
    \/ \E j \in Jobs, with_file \in BOOLEAN : UploadVideo(j, with_file)
    \/ \E j \in Jobs, change \in {"keep", "clear", "upload"} : VideoEdit(j, change)
    \/ \E j \in Jobs, enqueued \in BOOLEAN : DispatchThread(j, enqueued)
    \/ SweepReset
    \/ \E failed \in SUBSET Jobs : SweepPickup(failed)
    \/ \E selection \in SUBSET Jobs, failed \in SUBSET Jobs :
          StartProcessing(selection, failed)
    \/ \E j \in Jobs, enqueued \in BOOLEAN : RetryVideoProcessing(j, enqueued)
    \/ \E j \in Jobs, settings_active \in BOOLEAN, profiles_active \in BOOLEAN,
          task_raised \in BOOLEAN :
          WorkerStart(j, settings_active, profiles_active, task_raised)
    \/ \E run \in BagToSet(running), e \in Endings : WorkerFinish(run, e)
    \/ Tick
    \/ \E f \in Files : LoseFile(f)

Spec == Init /\ [][Next]_vars

(* the same handlers with the edit request in two steps, in a storage that *)
(* keeps its files and within the stuck threshold                          *)
NextStale ==
    \/ \E j \in Jobs, with_file \in BOOLEAN : UploadVideo(j, with_file)
    \/ \E j \in Jobs : EditorLoad(j)
    \/ \E change \in {"keep", "clear", "upload"} : EditorSave(change)
    \/ \E j \in Jobs, enqueued \in BOOLEAN : DispatchThread(j, enqueued)
    \/ SweepReset
    \/ \E failed \in SUBSET Jobs : SweepPickup(failed)
    \/ \E selection \in SUBSET Jobs, failed \in SUBSET Jobs :
          StartProcessing(selection, failed)
    \/ \E j \in Jobs, enqueued \in BOOLEAN : RetryVideoProcessing(j, enqueued)
    \/ \E j \in Jobs, settings_active \in BOOLEAN, profiles_active \in BOOLEAN,
          task_raised \in BOOLEAN :
          WorkerStart(j, settings_active, profiles_active, task_raised)
    \/ \E run \in BagToSet(running), e \in Endings : WorkerFinish(run, e)

SpecStale == Init /\ [][NextStale]_vars

(* ---------------------------------------------------------------------- *)
(* Properties                                                              *)
(* ---------------------------------------------------------------------- *)
(* the stored row refers to a source file and the storage holds it         *)
HasSource(row, st) ==
    row.temp_video_file # NoFile /\ row.temp_video_file \in st

(* C1: at most one pipeline run of a job is queued or executing at any     *)
(* time, over every interleaving of the trigger, the sweep, the retry, the *)
(* admin action and the worker.                                            *)
AtMostOneRunPerJob ==
    \A j \in Jobs : Queued(j) + Executing(j) <= 1

(* C2: once the job's status is "processing", a later eligibility trigger  *)
(* for it (a save from the snapshot the saver holds, a sweep pass, the     *)
(* admin action) enqueues nothing, starts no dispatch and leaves the       *)
(* status as it is.                                                        *)
LaterTriggerIsNoOp ==
    [][\A j \in created :
         (/\ db[j].processing_status = "processing"
          /\ last'.op \in {"stale_save", "sweep_reset", "sweep_pickup", "admin"})
         => /\ queue'[j] = queue[j]
            /\ threads'[j] = threads[j]
            /\ db'[j].processing_status = "processing"]_vars

(* C3: a job whose status is "completed" has progress 100 and a non-empty  *)
(* list of converted files.                                                *)
CompletedHasRenditions ==
    \A j \in created :
        db[j].processing_status = "completed"
        => /\ db[j].processing_progress = 100
           /\ db[j].converted_files # << >>

(* C4: a job whose status is "failed" or "error" has a non-empty error     *)
(* text, whichever path set the status.                                    *)
FailureHasErrorText ==
    \A j \in created :
        db[j].processing_status \in {"failed", "error"}
        => db[j].processing_error # EmptyText

(* C5: no dispatch path moves a job without a source file to "processing": *)
(* after a step that sets a job's status to "processing" (the status       *)
(* changes to it, or the trigger starts a dispatch thread for the job),    *)
(* the stored row refers to a file and the storage holds that file.        *)
NoSourceNeverProcessing ==
    [][\A j \in Jobs :
         (/\ db'[j].processing_status = "processing"
          /\ \/ db[j].processing_status # "processing"
             \/ threads'[j] > threads[j])
         => HasSource(db'[j], storage')]_vars

(* C6: after the sweep's stuck-job step, every job that was "processing"   *)
(* with updated_at more than StuckHours old is "pending" with a non-empty  *)
(* error, and every "processing" job updated more recently is untouched.   *)
StuckStepResets ==
    [][(sweep_pc = "idle" /\ sweep_pc' = "pickup")
       => \A j \in created :
            db[j].processing_status = "processing"
            => IF idle[j] > StuckHours
               THEN /\ db'[j].processing_status = "pending"
                    /\ db'[j].processing_error # EmptyText
               ELSE /\ db'[j] = db[j]
                    /\ idle'[j] = idle[j]
                    /\ threads'[j] = threads[j]]_vars

(* C7: when an enqueue attempt fails on a dispatch path (the trigger's     *)
(* thread, the sweep, the admin action), the job is "pending" when that    *)
(* handler ends.                                                           *)
EnqueueFailureLeavesPending ==
    [][last'.op \in {"thread", "sweep_pickup", "admin"}
       => \A j \in last'.failed : db'[j].processing_status = "pending"]_vars

(* C8: a task execution that ends for a job in status "processing" leaves  *)
(* the job "completed", "failed" or "error", the latter two with the error *)
(* recorded.                                                               *)
RunEndUpdatesJob ==
    [][last'.op = "run_end"
       => \A j \in last'.jobs :
            db[j].processing_status = "processing"
            => \/ db'[j].processing_status = "completed"
               \/ /\ db'[j].processing_status \in {"failed", "error"}
                  /\ db'[j].processing_error # EmptyText]_vars

(* C9: the retry trigger on a "failed" or "error" job whose source file    *)
(* exists (the broker accepting the message) leaves the job "pending" with *)
(* progress 0 and an empty error, and dispatches one new run.              *)
RetryResetsAndEnqueues ==
    [][\A j \in created :
         (/\ last'.op = "retry" /\ j \in last'.jobs /\ last'.failed = {}
          /\ db[j].processing_status \in {"failed", "error"}
          /\ HasSource(db[j], storage))
         => /\ db'[j].processing_status = "pending"
            /\ db'[j].processing_progress = 0
            /\ db'[j].processing_error = EmptyText
            /\ queue'[j] + threads'[j] = queue[j] + threads[j] + 1]_vars

(* C10: the retry trigger on a job that is not "failed"/"error", or whose  *)
(* source file is missing, is rejected, enqueues nothing and leaves the    *)
(* job's status, progress and error as they were.                          *)
RetryRejectsUnretryable ==
    [][\A j \in created :
         (/\ last'.op = "retry" /\ j \in last'.jobs
          /\ \/ db[j].processing_status \notin {"failed", "error"}
             \/ ~HasSource(db[j], storage))
         => /\ ~last'.ok
            /\ queue'[j] = queue[j]
            /\ threads'[j] = threads[j]
            /\ db'[j] = db[j]]_vars


(* ====================================================================== *)
(* Profile selection: get_suitable_profiles                                *)
(* ====================================================================== *)
MaxProfiles == 3

(* the encoding profiles of the catalogue and VideoEncodingProfile.height  *)
Resolutions == {"360p", "720p", "1080p"}
Height(resolution) ==
    CASE resolution = "360p" -> 360
      [] resolution = "720p" -> 720
      [] resolution = "1080p" -> 1080

(* what get_resolution can report; 0 stands for a failed probe             *)
SourceWidths == {0, 1280}
SourceHeights == {0, 240, 360, 720, 1080}

IsInjective(seq) ==
    \A i, k \in 1..Len(seq) : seq[i] = seq[k] => i = k

(* the non-empty candidate lists, in any order                             *)
ProfileLists ==
    {seq \in UNION {[1..n -> Resolutions] : n \in 1..MaxProfiles} : IsInjective(seq)}

(* the highest candidate in place of the lowest                            *)
Highest(profiles) ==
    LET i == CHOOSE i \in 1..Len(profiles) :
                 \A k \in 1..Len(profiles) : Height(profiles[i]) >= Height(profiles[k])
    IN  profiles[i]

(* min(profiles, key=lambda p: p.height): the first of the lowest          *)
Lowest(profiles) ==
    LET i == CHOOSE i \in 1..Len(profiles) :
                 /\ \A k \in 1..Len(profiles) : Height(profiles[i]) <= Height(profiles[k])
                 /\ \A k \in 1..(i - 1) : Height(profiles[k]) > Height(profiles[i])
    IN  profiles[i]

Fits(resolution, source_height) == Height(resolution) <= source_height

(* the selection without its fallback                                      *)
SelectWithoutFallback(source_width, source_height, profiles) ==
    IF source_width = 0 \/ source_height = 0 THEN profiles
    ELSE SelectSeq(profiles, LAMBDA p : Fits(p, source_height))

get_suitable_profiles(source_width, source_height, profiles) ==
    IF source_width = 0 \/ source_height = 0 THEN profiles
    ELSE LET suitable == SelectSeq(profiles, LAMBDA p : Fits(p, source_height))
         IN  IF suitable = << >> THEN <<Lowest(profiles)>> ELSE suitable

(* one call: the arguments it was given and, once returned, its result     *)
SelectorCalls ==
    [pc : {"called"}, source_width : SourceWidths, source_height : SourceHeights,
     profiles : ProfileLists, suitable : {<< >>}]

ProfilesInit ==
    /\ DispatchInit
    /\ selector \in SelectorCalls
    /\ encoder = NotCalled
    /\ pipeline = NotCalled
    /\ monitor = NotCalled
    /\ saves = NotCalled
    /\ priority = NotCalled
    /\ ServicesNotCalled

SelectProfiles ==
    /\ selector.pc = "called"
    /\ selector' = [selector EXCEPT
           !.pc = "returned",
           !.suitable = get_suitable_profiles(selector.source_width,
                                              selector.source_height,
                                              selector.profiles)]
    /\ UNCHANGED <<dispatch, encoder, pipeline, monitor, saves, priority, services>>

NextProfiles == SelectProfiles

SpecProfiles == ProfilesInit /\ [][NextProfiles]_vars

(* sub is full with some elements left out, the order kept                 *)
IsSubList(sub, full) ==
    \E f \in [1..Len(sub) -> 1..Len(full)] :
        /\ \A i \in 1..Len(sub) : sub[i] = full[f[i]]
        /\ \A i, k \in 1..Len(sub) : i < k => f[i] < f[k]

SourceKnown == selector.source_width # 0 /\ selector.source_height # 0

SomeCandidateFits ==
    \E i \in 1..Len(selector.profiles) : Fits(selector.profiles[i], selector.source_height)

(* C13: for every source resolution, known or unknown, and every non-empty *)
(* candidate list, the selected list is non-empty and is a sub-list of     *)
(* the candidates.                                                         *)
SelectionNonEmptySubList ==
    selector.pc = "returned" =>
        /\ selector.suitable # << >>
        /\ IsSubList(selector.suitable, selector.profiles)

(* a call whose candidates are all taller than the known source returned   *)
SelectionFellBack ==
    /\ selector.pc = "returned"
    /\ SourceKnown
    /\ ~SomeCandidateFits
    /\ Len(selector.profiles) > 1

Outcomes == {"success", "failure", "raised"}

EncodingResult(resolution, success) == [resolution |-> resolution, success |-> success]

(* how a call ends: it returns a list of results, or an exception leaves it *)
Returned(results) == [raised |-> FALSE, results |-> results]
RaisedCall == [raised |-> TRUE, results |-> << >>]

(* a sequential loop that goes on after a failure                          *)
RECURSIVE SequentialNoStop(_, _, _, _, _)
SequentialNoStop(i, profiles, outcome, callback_raises, results) ==
    IF i > Len(profiles) THEN Returned(results)
    ELSE IF callback_raises \/ outcome[profiles[i]] = "raised" THEN RaisedCall
    ELSE SequentialNoStop(i + 1, profiles, outcome, callback_raises,
             Append(results, EncodingResult(profiles[i], outcome[profiles[i]] = "success")))

(* the loop of _encode_sequential from profile i on: the progress callback *)
(* is called first, then encode_single; the loop breaks at a failed result *)
RECURSIVE SequentialFrom(_, _, _, _, _)
SequentialFrom(i, profiles, outcome, callback_raises, results) ==
    IF i > Len(profiles) THEN Returned(results)
    ELSE IF callback_raises \/ outcome[profiles[i]] = "raised" THEN RaisedCall
    ELSE LET result == EncodingResult(profiles[i], outcome[profiles[i]] = "success")
             appended == Append(results, result)
         IN  IF ~result.success THEN Returned(appended)
             ELSE SequentialFrom(i + 1, profiles, outcome, callback_raises, appended)

encode_sequential(profiles, outcome, callback_raises) ==
    SequentialFrom(1, profiles, outcome, callback_raises, << >>)

(* the loop of _encode_parallel over the futures in their completion       *)
(* order: a raising encode_single gives a failed result; a raising         *)
(* progress callback gives a failed result after the result just appended  *)
RECURSIVE ParallelFrom(_, _, _, _, _, _)
ParallelFrom(k, profiles, outcome, order, callback_raises, results) ==
    IF k > Len(order) THEN Returned(results)
    ELSE LET profile == profiles[order[k]]
             failure == EncodingResult(profile, FALSE)
             result == EncodingResult(profile, outcome[profile] = "success")
             appended ==
                 IF outcome[profile] = "raised" THEN Append(results, failure)
                 ELSE IF callback_raises THEN results \o <<result, failure>>
                 ELSE Append(results, result)
         IN  ParallelFrom(k + 1, profiles, outcome, order, callback_raises, appended)

encode_parallel(profiles, outcome, order, callback_raises) ==
    ParallelFrom(1, profiles, outcome, order, callback_raises, << >>)

(* the orders in which n futures can complete                              *)
CompletionOrders(n) == {order \in [1..n -> 1..n] : IsInjective(order)}

ProfileSet(profiles) == {profiles[i] : i \in 1..Len(profiles)}

(* one comparison: the same profile list and outcomes given to both modes; *)
(* ran names the modes that have run                                       *)

EncoderCalls ==
    UNION {[pc : {"called"}, profiles : {profiles},
            outcome : [ProfileSet(profiles) -> Outcomes],
            order : CompletionOrders(Len(profiles)),
            callback_raises : BOOLEAN,
            ran : {{}}, sequential : {Returned(<< >>)},
            parallel : {Returned(<< >>)}] : profiles \in ProfileLists}

EncoderInit ==
    /\ DispatchInit
    /\ selector = NotCalled
    /\ encoder \in EncoderCalls
    /\ pipeline = NotCalled
    /\ monitor = NotCalled
    /\ saves = NotCalled
    /\ priority = NotCalled
    /\ ServicesNotCalled

EncodeSequential ==
    /\ encoder.pc = "called"
    /\ "sequential" \notin encoder.ran
    /\ encoder' = [encoder EXCEPT
           !.ran = @ \cup {"sequential"},
           !.sequential = encode_sequential(encoder.profiles, encoder.outcome,
                                            encoder.callback_raises)]
    /\ UNCHANGED <<dispatch, selector, pipeline, monitor, saves, priority, services>>

EncodeParallel ==
    /\ encoder.pc = "called"
    /\ "parallel" \notin encoder.ran
    /\ encoder' = [encoder EXCEPT
           !.ran = @ \cup {"parallel"},
           !.parallel = encode_parallel(encoder.profiles, encoder.outcome,
                                        encoder.order, encoder.callback_raises)]
    /\ UNCHANGED <<dispatch, selector, pipeline, monitor, saves, priority, services>>

NextEncoder ==
    \/ EncodeSequential
    \/ EncodeParallel

SpecEncoder == EncoderInit /\ [][NextEncoder]_vars

(* the set of (profile, success) pairs of a returned list                  *)
ResultSet(call) == {call.results[i] : i \in 1..Len(call.results)}

(* both modes have run on outcomes that are all success or failure, with   *)
(* a progress callback that does not raise                                 *)
BothModesRan ==
    /\ encoder.pc = "called"
    /\ encoder.ran = {"sequential", "parallel"}
    /\ ~encoder.callback_raises
    /\ \A p \in ProfileSet(encoder.profiles) : encoder.outcome[p] # "raised"

(* the position of the first profile whose encode fails, 0 if none         *)
FirstFailure ==
    LET failed == {i \in 1..Len(encoder.profiles) :
                      encoder.outcome[encoder.profiles[i]] = "failure"}
    IN  IF failed = {} THEN 0
        ELSE CHOOSE i \in failed : \A k \in failed : i <= k

encode_multiple(source_width, source_height, profiles, outcome, order, callback_raises, parallel) ==
    IF profiles = << >> THEN Returned(<< >>)
    ELSE LET suitable == get_suitable_profiles(source_width, source_height, profiles)
         IN  IF parallel /\ Len(suitable) > 1
             THEN encode_parallel(suitable, outcome, order, callback_raises)
             ELSE encode_sequential(suitable, outcome, callback_raises)

StageOrder ==
    <<"validation", "poster_extraction", "preview_generation", "encoding",
      "finalization">>

(* the second and third stage exchanged                                    *)
SwappedStage(stage) ==
    CASE stage = "validation" -> "preview_generation"
      [] stage = "preview_generation" -> "poster_extraction"
      [] stage = "poster_extraction" -> "encoding"
      [] stage = "encoding" -> "finalization"
      [] stage = "finalization" -> "done"

(* the stage process() goes on with when a stage has succeeded             *)
NextStage(stage) ==
    CASE stage = "validation" -> "poster_extraction"
      [] stage = "poster_extraction" -> "preview_generation"
      [] stage = "preview_generation" -> "encoding"
      [] stage = "encoding" -> "finalization"
      [] stage = "finalization" -> "done"

(* the texts _validate returns                                             *)
ValidationErrors ==
    {<<"FFmpeg is not available">>, <<"Source video not found: ", "a.mp4">>,
     <<"Insufficient disk space: ", "MB free, ", "MB required">>}

(* the texts of the exceptions that can leave a stage; str(e) may be empty *)
ExceptionTexts == {EmptyText, <<"[Errno 13] Permission denied">>}

NoResult == FailureResult("none", EmptyText)

SuccessResult(results) ==
    [success |-> TRUE, error_stage |-> "", error_message |-> EmptyText,
     encoded_files |-> results]

(* some result of the list failed                                          *)
SomeFailed(results) == \E i \in 1..Len(results) : ~results[i].success

(* successful_encodes is empty                                             *)
NoneSucceeded(results) == \A i \in 1..Len(results) : ~results[i].success

(* a run: the stage it is at, the stages it has executed, the files it     *)
(* tracks in _created_files, the output files on disk, how it ended        *)
PipelineStarted(profiles, parallel, cleanup_on_error) ==
    [pc |-> "validation", profiles |-> profiles, parallel |-> parallel,
     cleanup_on_error |-> cleanup_on_error, executed |-> << >>,
     created_files |-> {}, files |-> {}, encoding_results |-> << >>,
     ended |-> "running", result |-> NoResult]

PipelineFrame ==
    UNCHANGED <<dispatch, selector, encoder, monitor, saves, priority, services>>

PipelineStart(profiles, parallel, cleanup_on_error) ==
    /\ pipeline.pc = "idle"
    /\ pipeline' = PipelineStarted(profiles, parallel, cleanup_on_error)
    /\ PipelineFrame

(* the run as stage has been executed                                      *)
Executed(run, stage) == [run EXCEPT !.executed = Append(@, stage)]

(* _handle_error: the tracked files are removed when the configuration     *)
(* says so, and the failure result is returned                             *)
PipelineHandleError(run, error_message, error_stage, ended) ==
    [run EXCEPT
        !.pc = "done",
        !.ended = ended,
        !.files = IF run.cleanup_on_error THEN @ \ run.created_files ELSE @,
        !.created_files = IF run.cleanup_on_error THEN {} ELSE @,
        !.result = FailureResult(error_stage, error_message)]

(* the except clause of process(): an exception left the stage             *)
StageRaised(run, text) == PipelineHandleError(run, text, "initialization", "raised")

(* a stage that produced the file name and goes on                        *)
Tracked(run, names) ==
    [run EXCEPT !.created_files = @ \cup names, !.files = @ \cup names]

(* stage 1: a validation error is returned as it is, without _handle_error *)
Validate(validation_error, raised, text) ==
    /\ pipeline.pc = "validation"
    /\ LET run == Executed(pipeline, "validation")
       IN  pipeline' =
               IF raised THEN StageRaised(run, text)
               ELSE IF validation_error # EmptyText
               THEN [run EXCEPT !.pc = "done", !.ended = "reported",
                                !.result = FailureResult("validation", validation_error)]
               ELSE [run EXCEPT !.pc = NextStage("validation")]
    /\ PipelineFrame

(* stage 2                                                                 *)
ExtractPoster(outcome, text) ==
    /\ pipeline.pc = "poster_extraction"
    /\ LET run == Executed(pipeline, "poster_extraction")
       IN  pipeline' =
               CASE outcome = "raised" -> StageRaised(run, text)
                 [] outcome = "failure" ->
                        PipelineHandleError(run, <<"Poster extraction failed for video">>,
                                            "poster_extraction", "reported")
                 [] outcome = "success" ->
                        [Tracked(run, {"poster"}) EXCEPT !.pc = NextStage("poster_extraction")]
    /\ PipelineFrame

(* stage 3                                                                 *)
GeneratePreview(outcome, text) ==
    /\ pipeline.pc = "preview_generation"
    /\ LET run == Executed(pipeline, "preview_generation")
       IN  pipeline' =
               CASE outcome = "raised" -> StageRaised(run, text)
                 [] outcome = "failure" ->
                        PipelineHandleError(run, <<"Preview generation failed for video">>,
                                            "preview_generation", "reported")
                 [] outcome = "success" ->
                        [Tracked(run, {"preview"}) EXCEPT !.pc = NextStage("preview_generation")]
    /\ PipelineFrame

(* the outputs encode_single has written when an exception leaves          *)
(* _encode_sequential: those of the profiles before the one that raised    *)
WrittenBeforeRaise(profiles, outcome, callback_raises) ==
    LET raised == {i \in 1..Len(profiles) : outcome[profiles[i]] = "raised"}
    IN  IF callback_raises \/ raised = {} THEN {}
        ELSE {profiles[i] :
                 i \in 1..((CHOOSE i \in raised : \A k \in raised : i <= k) - 1)}

(* stage 4: _encode_video tracks the outputs of the successful results     *)
(* once encode_multiple has returned; when it raised, the outputs written  *)
(* so far are on disk and not tracked; the run fails when no result is     *)
(* successful                                                              *)
Encoded(run, call, written) ==
    IF call.raised
    THEN [run EXCEPT !.encoding_results = << >>, !.files = @ \cup written]
    ELSE [Tracked(run, {call.results[i].resolution :
                           i \in {k \in 1..Len(call.results) : call.results[k].success}})
             EXCEPT !.encoding_results = call.results]

EncodeVideo(source_width, source_height, outcome, order, callback_raises, text) ==
    /\ pipeline.pc = "encoding"
    /\ LET call == encode_multiple(source_width, source_height, pipeline.profiles,
                                   outcome, order, callback_raises, pipeline.parallel)
           written == WrittenBeforeRaise(
                          get_suitable_profiles(source_width, source_height,
                                                pipeline.profiles),
                          outcome, callback_raises)
           run == Encoded(Executed(pipeline, "encoding"), call, written)
       IN  pipeline' =
               IF call.raised THEN StageRaised(run, text)
               ELSE IF NoneSucceeded(call.results)
               THEN PipelineHandleError(run, <<"All encoding profiles failed">>,
                                        "encoding", "reported")
               ELSE [run EXCEPT !.pc = NextStage("encoding")]
    /\ PipelineFrame

(* stage 5                                                                 *)
Finalize(raised, text) ==
    /\ pipeline.pc = "finalization"
    /\ LET run == Executed(pipeline, "finalization")
       IN  pipeline' =
               IF raised THEN StageRaised(run, text)
               ELSE [run EXCEPT !.pc = NextStage("finalization"), !.ended = "returned",
                                !.result = SuccessResult(run.encoding_results)]
    /\ PipelineFrame

NextPipeline ==
    \/ \E profiles \in ProfileLists, parallel \in BOOLEAN, cleanup_on_error \in BOOLEAN :
           PipelineStart(profiles, parallel, cleanup_on_error)
    \/ \E validation_error \in ValidationErrors \cup {EmptyText}, raised \in BOOLEAN,
          text \in ExceptionTexts :
           Validate(validation_error, raised, text)
    \/ \E outcome \in Outcomes, text \in ExceptionTexts : ExtractPoster(outcome, text)
    \/ \E outcome \in Outcomes, text \in ExceptionTexts : GeneratePreview(outcome, text)
    \/ /\ pipeline.pc = "encoding"
       /\ \E source_width \in SourceWidths, source_height \in SourceHeights,
             outcome \in [ProfileSet(pipeline.profiles) -> Outcomes],
             callback_raises \in BOOLEAN, text \in ExceptionTexts :
              \E order \in CompletionOrders(Len(get_suitable_profiles(
                               source_width, source_height, pipeline.profiles))) :
                  EncodeVideo(source_width, source_height, outcome, order,
                              callback_raises, text)
    \/ \E raised \in BOOLEAN, text \in ExceptionTexts : Finalize(raised, text)

SpecPipeline == Init /\ [][NextPipeline]_vars

(* seq is the beginning of full                                            *)
IsPrefix(seq, full) ==
    /\ Len(seq) <= Len(full)
    /\ \A i \in 1..Len(seq) : seq[i] = full[i]

LastExecuted == pipeline.executed[Len(pipeline.executed)]

PipelineRunning == pipeline.pc # "idle"

EncodingReturned ==
    /\ PipelineRunning
    /\ Len(pipeline.executed) >= 4
    /\ ~(pipeline.ended = "raised" /\ Len(pipeline.executed) = 4)

EncodedSuccessfully ==
    {pipeline.encoding_results[i].resolution :
        i \in {k \in 1..Len(pipeline.encoding_results) :
                  pipeline.encoding_results[k].success}}

MaxTime == 3
MaxAlerts == 2
CooldownUnits == 2

(* the check_alert_rules tasks that can be executing at the same time      *)
Ticks == {1, 2}

NoTime == << >>
At(time) == <<time>>

(* Alert.objects.create(rule=rule, ...)                                    *)
NewAlert(id, now) ==
    [id |-> id, status |-> "active", created_at |-> now, resolved_at |-> NoTime]

(* Alert.acknowledge; the time of it is not kept                           *)
Acknowledged(alert, now) ==
    [alert EXCEPT !.status = "acknowledged"]

(* a resolution that leaves resolved_at empty                              *)
ResolvedWithoutTime(alert, now) == [alert EXCEPT !.status = "resolved"]

(* Alert.resolve                                                           *)
Resolved(alert, now) ==
    [alert EXCEPT !.status = "resolved", !.resolved_at = At(now)]

ActiveAlerts(alerts) == {a \in alerts : a.status = "active"}

(* _should_check_rule: true without an active alert, else true when the    *)
(* newest active alert is older than the cooldown                          *)
ShouldCheckRule(alerts, now) ==
    LET active == ActiveAlerts(alerts)
    IN  IF active = {} THEN TRUE
        ELSE LET last_alert == CHOOSE a \in active :
                                   \A b \in active : b.created_at <= a.created_at
             IN  now - last_alert.created_at > CooldownUnits

(* _threshold_exceeded on the value the rule's metric has                  *)
ThresholdExceeded(value) == value = "above"

(* no alert of the rule, whatever its status, was created within the       *)
(* cooldown before now                                                     *)
NoAlertWithinCooldown(alerts, now) ==
    \A a \in alerts : now - a.created_at > CooldownUnits

(* a tick: where it is, and what it found when it took the rule (the       *)
(* number of alerts, and whether none was within the cooldown)             *)
IdleTick == [pc |-> "idle", start_count |-> 0, quiet |-> FALSE]

MonitorStarted ==
    [pc |-> "running", now |-> 0, rule_active |-> TRUE, value |-> "below",
     alerts |-> {}, ticks |-> [t \in Ticks |-> IdleTick], ticked |-> FALSE,
     last |-> [op |-> "start", tick |-> 0]]

MonitorFrame == UNCHANGED <<dispatch, selector, encoder, pipeline, saves, priority, services>>

MonitorStart ==
    /\ monitor.pc = "idle"
    /\ monitor' = MonitorStarted
    /\ MonitorFrame

MonitorOp(name, t) == [op |-> name, tick |-> t]

(* check_all_rules up to _should_check_rule: the tick takes the rule when  *)
(* it is active and _should_check_rule allows it, else the tick is over    *)
TickShouldCheck(t) ==
    /\ monitor.pc = "running"
    /\ monitor.ticks[t].pc = "idle"
    /\ monitor' =
           IF monitor.rule_active /\ ShouldCheckRule(monitor.alerts, monitor.now)
           THEN [monitor EXCEPT
                    !.ticks[t] = [pc |-> "check",
                                  start_count |-> Cardinality(monitor.alerts),
                                  quiet |-> NoAlertWithinCooldown(monitor.alerts,
                                                                  monitor.now)],
                    !.ticked = TRUE,
                    !.last = MonitorOp("tick_taken", t)]
           ELSE [monitor EXCEPT !.ticked = TRUE,
                                !.last = MonitorOp("tick_skipped", t)]
    /\ MonitorFrame

(* _check_rule: the value is read; above the threshold an alert is         *)
(* created, else the active alerts of the rule are resolved; a value that  *)
(* cannot be read (None) ends the check                                    *)
TickCheck(t, readable) ==
    /\ monitor.pc = "running"
    /\ monitor.ticks[t].pc = "check"
    /\ (readable /\ ThresholdExceeded(monitor.value)) =>
           Cardinality(monitor.alerts) < MaxAlerts
    /\ monitor' =
           [monitor EXCEPT
               !.ticks[t] = IdleTick,
               !.alerts =
                   IF ~readable THEN @
                   ELSE IF ThresholdExceeded(monitor.value)
                   THEN @ \cup {NewAlert(Cardinality(@) + 1, monitor.now)}
                   ELSE {IF a.status = "active" THEN Resolved(a, monitor.now) ELSE a :
                            a \in @},
               !.last = MonitorOp(IF readable THEN "tick_checked" ELSE "tick_unread", t)]
    /\ MonitorFrame

(* the admin action acknowledge_alerts on one active alert                 *)
AcknowledgeAlert(id) ==
    /\ monitor.pc = "running"
    /\ \E a \in ActiveAlerts(monitor.alerts) :
           /\ a.id = id
           /\ monitor' = [monitor EXCEPT
                  !.alerts = (@ \ {a}) \cup {Acknowledged(a, monitor.now)},
                  !.last = MonitorOp("acknowledge", 0)]
    /\ MonitorFrame

(* the admin action resolve_alerts on one active or acknowledged alert     *)
ResolveAlert(id) ==
    /\ monitor.pc = "running"
    /\ \E a \in monitor.alerts :
           /\ a.id = id
           /\ a.status \in {"active", "acknowledged"}
           /\ monitor' = [monitor EXCEPT
                  !.alerts = (@ \ {a}) \cup {Resolved(a, monitor.now)},
                  !.last = MonitorOp("resolve", 0)]
    /\ MonitorFrame

(* the metric of the rule crosses the threshold                            *)
ValueChanges ==
    /\ monitor.pc = "running"
    /\ monitor' = [monitor EXCEPT
           !.value = IF @ = "above" THEN "below" ELSE "above",
           !.last = MonitorOp("value", 0)]
    /\ MonitorFrame

(* an operator switches the rule on or off                                 *)
ToggleRule ==
    /\ monitor.pc = "running"
    /\ monitor' = [monitor EXCEPT !.rule_active = ~@, !.last = MonitorOp("rule", 0)]
    /\ MonitorFrame

(* time passes                                                             *)
ClockTick ==
    /\ monitor.pc = "running"
    /\ monitor.now < MaxTime
    /\ monitor' = [monitor EXCEPT !.now = @ + 1, !.ticked = FALSE,
                                  !.last = MonitorOp("clock", 0)]
    /\ MonitorFrame

(* two ticks may overlap: the worker runs two tasks at a time              *)
NextAlerts ==
    \/ MonitorStart
    \/ \E t \in Ticks : TickShouldCheck(t)
    \/ \E t \in Ticks, readable \in BOOLEAN : TickCheck(t, readable)
    \/ \E id \in 1..MaxAlerts : AcknowledgeAlert(id)
    \/ \E id \in 1..MaxAlerts : ResolveAlert(id)
    \/ ValueChanges
    \/ ToggleRule
    \/ ClockTick

SpecAlerts == Init /\ [][NextAlerts]_vars

(* one tick at a time, as the beat schedule sends them: a tick begins      *)
(* after the clock has moved on from the tick before                       *)
NextAlertsSerial ==
    \/ MonitorStart
    \/ monitor.pc = "running" /\ ~monitor.ticked /\ TickShouldCheck(1)
    \/ \E readable \in BOOLEAN : TickCheck(1, readable)
    \/ \E id \in 1..MaxAlerts : AcknowledgeAlert(id)
    \/ \E id \in 1..MaxAlerts : ResolveAlert(id)
    \/ ValueChanges
    \/ ToggleRule
    \/ ClockTick

SpecAlertsSerial == Init /\ [][NextAlertsSerial]_vars


(* the step is the end of a check by a tick that read the value            *)
TickCheckedStep ==
    /\ monitor.pc = "running"
    /\ monitor'.last.op = "tick_checked"
    /\ monitor.ticks[monitor'.last.tick].pc = "check"

(* the step is a tick that passed the active rule by                       *)
TickSkippedStep ==
    /\ monitor.pc = "running"
    /\ monitor'.last = MonitorOp("tick_skipped", monitor'.last.tick)
    /\ monitor' # monitor \/ monitor.last.op = "tick_skipped"
    /\ monitor.rule_active

(* C16: when a tick took the active rule with no alert of the rule within  *)
(* the cooldown and finds the value above the threshold, exactly one alert *)
(* has been created for the rule since the tick took it, also when         *)
(* another tick evaluates the rule at the same time.                       *)
BreachCreatesExactlyOneAlert ==
    [][(/\ TickCheckedStep
        /\ monitor.value = "above"
        /\ monitor.ticks[monitor'.last.tick].quiet)
       => Cardinality(monitor'.alerts)
              = monitor.ticks[monitor'.last.tick].start_count + 1]_vars

(* C17 as stated: after every tick at which the active rule's value does   *)
(* not exceed the threshold no alert of the rule is active any more.       *)
EveryTickBelowResolves ==
    [][((TickCheckedStep \/ TickSkippedStep) /\ monitor.value = "below")
       => ActiveAlerts(monitor'.alerts) = {}]_vars

(* C17 amended: a tick that checks the rule and reads a value that does    *)
(* not exceed the threshold resolves every active alert of the rule        *)
(* (status "resolved", resolved_at the time of the tick) and changes no    *)
(* other alert; a tick passes the active rule by, leaving its alerts as    *)
(* they are, exactly while its newest active alert is not older than the   *)
(* cooldown.                                                               *)
CheckedTickBelowResolves ==
    [][/\ (TickCheckedStep /\ monitor.value = "below") =>
              /\ ActiveAlerts(monitor'.alerts) = {}
              /\ \A a \in monitor.alerts :
                     IF a.status = "active"
                     THEN \E b \in monitor'.alerts :
                              /\ b.id = a.id
                              /\ b.status = "resolved"
                              /\ b.resolved_at = At(monitor.now)
                     ELSE a \in monitor'.alerts
       /\ TickSkippedStep =>
              /\ monitor'.alerts = monitor.alerts
              /\ \E a \in ActiveAlerts(monitor.alerts) :
                     monitor.now - a.created_at <= CooldownUnits]_vars

(* a tick has just resolved an alert older than the cooldown               *)
TickResolvedAnAlert ==
    /\ monitor.pc = "running"
    /\ monitor.last.op = "tick_checked"
    /\ monitor.value = "below"
    /\ \E a \in monitor.alerts :
           /\ a.status = "resolved"
           /\ a.resolved_at = At(monitor.now)
           /\ monitor.now - a.created_at > CooldownUnits

(* C18: two alerts of the rule are never created less than the cooldown    *)
(* apart, whatever the status of the earlier one.                          *)
AlertsAreCooldownApart ==
    monitor.pc = "running" =>
        \A a, b \in monitor.alerts :
            (a.id # b.id /\ a.created_at <= b.created_at)
                => b.created_at - a.created_at >= CooldownUnits


(* ====================================================================== *)
(* video_pre_save and video_post_save under interleaved saves              *)
(* ====================================================================== *)
(* The saves of one server process: its request threads share the module   *)
(* dictionary _old_temp_video_file. Every save here writes the instance    *)
(* as it was loaded: no save changes the source file or the status.        *)
Videos == {1, 2}
Savers == {1, 2}

(* the key is not in _old_temp_video_file                                  *)
Absent == "absent"

FileOf(v) == IF v = 1 THEN "v1.mp4" ELSE "v2.mp4"

StoredVideos ==
    [Videos -> [processing_status : {"pending", "completed", "failed", "error"},
                temp_video_file : {NoFile} \cup {FileOf(v) : v \in Videos}]]

IdleSaver == [pc |-> "idle", video |-> 0, instance |-> << >>]

SavesStarted(rows) ==
    [pc |-> "running", rows |-> rows,
     old_temp_video_file |-> [v \in Videos |-> Absent],
     savers |-> [t \in Savers |-> IdleSaver],
     threads |-> [v \in Videos |-> 0], queued |-> [v \in Videos |-> 0],
     last |-> [op |-> "start", video |-> 0]]

SavesFrame == UNCHANGED <<dispatch, selector, encoder, pipeline, monitor, priority, services>>

(* the records as they are stored: each names its own file or none         *)
SavesStart(rows) ==
    /\ saves.pc = "idle"
    /\ \A v \in Videos : rows[v].temp_video_file \in {NoFile, FileOf(v)}
    /\ saves' = SavesStarted(rows)
    /\ SavesFrame

(* every file a record names is in storage                                 *)
SavedStorage == {FileOf(v) : v \in Videos}

(* a request loads the record it will save                                 *)
SaverLoad(t, v) ==
    /\ saves.pc = "running"
    /\ saves.savers[t].pc = "idle"
    /\ saves' = [saves EXCEPT
           !.savers[t] = [pc |-> "loaded", video |-> v, instance |-> saves.rows[v]],
           !.last = [op |-> "load", video |-> v]]
    /\ SavesFrame

(* video_pre_save: the stored file name is put under the record's key      *)
VideoPreSave(t) ==
    /\ saves.pc = "running"
    /\ saves.savers[t].pc = "loaded"
    /\ LET v == saves.savers[t].video
       IN  saves' = [saves EXCEPT
               !.savers[t].pc = "pre_saved",
               !.old_temp_video_file[v] = saves.rows[v].temp_video_file,
               !.last = [op |-> "pre_save", video |-> v]]
    /\ SavesFrame

(* the write of Model.save and video_post_save: the entry is popped (None  *)
(* when the key is gone), and the trigger flips the status and starts a    *)
(* dispatch thread when it fires                                           *)
VideoPostSave(t) ==
    /\ saves.pc = "running"
    /\ saves.savers[t].pc = "pre_saved"
    /\ LET v == saves.savers[t].video
           instance == saves.savers[t].instance
           popped == saves.old_temp_video_file[v]
           old_file == IF popped = Absent THEN NoFile ELSE popped
           fired == TriggerFires(FALSE, old_file, instance, SavedStorage)
       IN  /\ fired => saves.threads[v] + saves.queued[v] < MaxRuns
           /\ saves' = [saves EXCEPT
                  !.savers[t] = IdleSaver,
                  !.old_temp_video_file[v] = Absent,
                  !.rows[v] = IF fired THEN [instance EXCEPT !.processing_status = "processing"]
                              ELSE instance,
                  !.threads[v] = IF fired THEN @ + 1 ELSE @,
                  !.last = [op |-> "post_save", video |-> v]]
    /\ SavesFrame

(* run_processing, the thread the trigger started: apply_async, or the     *)
(* status back to "pending" when it raises                                 *)
SavesDispatchThread(v, enqueued) ==
    /\ saves.pc = "running"
    /\ saves.threads[v] > 0
    /\ saves' = [saves EXCEPT
           !.threads[v] = @ - 1,
           !.queued[v] = IF enqueued THEN @ + 1 ELSE @,
           !.rows[v].processing_status = IF enqueued THEN @ ELSE "pending",
           !.last = [op |-> "thread", video |-> v]]
    /\ SavesFrame

NextSaves ==
    \/ \E rows \in StoredVideos : SavesStart(rows)
    \/ \E t \in Savers, v \in Videos : SaverLoad(t, v)
    \/ \E t \in Savers : VideoPreSave(t)
    \/ \E t \in Savers : VideoPostSave(t)
    \/ \E v \in Videos, enqueued \in BOOLEAN : SavesDispatchThread(v, enqueued)

SpecSaves == Init /\ [][NextSaves]_vars

(* C19: no save that leaves the source file as it is takes a job out of    *)
(* status "failed" or "error" or starts a run of it, whatever saves of     *)
(* the same or of other records it is interleaved with.                    *)
FailedJobStaysFailed ==
    [][saves.pc = "running" =>
           \A v \in Videos :
               saves.rows[v].processing_status \in {"failed", "error"} =>
                   /\ saves'.rows[v].processing_status = saves.rows[v].processing_status
                   /\ saves'.threads[v] = saves.threads[v]
                   /\ saves'.queued[v] = saves.queued[v]]_vars


(* ====================================================================== *)
(* PriorityManager.get_priority_for_video                                  *)
(* ====================================================================== *)
PRIORITY_CRITICAL == 10
PRIORITY_NORMAL == 5

(* how far outside 0..10 the priorities given to set_user_priority go      *)
MaxExcess == 2

(* the numbers of prior uploads around the two thresholds                  *)
VideoCounts == {0, 4, 5, 50, 51}

(* a new account: the defaults of the User fields                          *)
NewUser(is_staff, is_superuser, videos_count) ==
    [is_staff |-> is_staff, is_superuser |-> is_superuser, is_premium |-> FALSE,
     videos_count |-> videos_count, processing_priority |-> 5]

Max(a, b) == IF a >= b THEN a ELSE b
Min(a, b) == IF a <= b THEN a ELSE b

(* the priority of a user without the limit on the boost                   *)
UnboundedPriority(user) ==
    IF user.is_premium THEN Max(7, user.processing_priority)
    ELSE IF user.videos_count > 50 THEN user.processing_priority + 1
    ELSE IF user.videos_count < 5 THEN 3
    ELSE user.processing_priority

(* User.get_processing_priority                                            *)
get_processing_priority(user) ==
    IF user.is_premium THEN Max(7, user.processing_priority)
    ELSE IF user.videos_count > 50 THEN Min(6, user.processing_priority + 1)
    ELSE IF user.videos_count < 5 THEN 3
    ELSE user.processing_priority

(* get_priority_for_video: User has get_processing_priority, so the        *)
(* branches after it are never reached                                     *)
get_priority_for_video(has_user, user) ==
    IF ~has_user THEN PRIORITY_NORMAL
    ELSE IF user.is_staff \/ user.is_superuser THEN PRIORITY_CRITICAL
    ELSE get_processing_priority(user)

PriorityFrame == UNCHANGED <<dispatch, selector, encoder, pipeline, monitor, saves, services>>

(* a video and its uploader, if it has one                                 *)
PriorityStart(has_user, is_staff, is_superuser, videos_count) ==
    /\ priority.pc = "idle"
    /\ priority' = [pc |-> "stored", has_user |-> has_user,
                    user |-> NewUser(is_staff, is_superuser, videos_count),
                    computed |-> FALSE, result |-> 0]
    /\ PriorityFrame

(* the command set_user_priority: a priority outside 0..10 is refused and  *)
(* nothing is saved                                                        *)
SetUserPriority(new_priority, premium, no_premium) ==
    /\ priority.pc = "stored"
    /\ priority.has_user
    /\ priority' =
           IF new_priority >= 0 /\ new_priority <= 10
           THEN [priority EXCEPT
                    !.user.processing_priority = new_priority,
                    !.user.is_premium = IF premium THEN TRUE
                                        ELSE IF no_premium THEN FALSE ELSE @,
                    !.computed = FALSE]
           ELSE [priority EXCEPT !.computed = FALSE]
    /\ PriorityFrame

(* the dispatch thread computes the priority of the run                    *)
GetPriorityForVideo ==
    /\ priority.pc = "stored"
    /\ priority' = [priority EXCEPT
           !.computed = TRUE,
           !.result = get_priority_for_video(priority.has_user, priority.user)]
    /\ PriorityFrame

NextPriority ==
    \/ \E has_user, is_staff, is_superuser \in BOOLEAN, videos_count \in VideoCounts :
           PriorityStart(has_user, is_staff, is_superuser, videos_count)
    \/ \E new_priority \in (0 - MaxExcess)..(10 + MaxExcess),
          premium, no_premium \in BOOLEAN :
           SetUserPriority(new_priority, premium, no_premium)
    \/ GetPriorityForVideo

SpecPriority == Init /\ [][NextPriority]_vars

(* C20: the priority computed for a job is an integer from 0 to 10, for    *)
(* every uploader: staff or superuser or neither, premium or not, any      *)
(* number of prior uploads, any stored processing priority (the default,   *)
(* or one that set_user_priority accepted).                                *)
PriorityInRange ==
    (priority.pc = "stored" /\ priority.computed) =>
        /\ priority.result \in Int
        /\ priority.result >= 0
        /\ priority.result <= 10

(* the priority was computed for an uploader with more than 50 uploads     *)
(* whose stored priority is the highest there is                           *)
BoostedFromHighest ==
    /\ priority.pc = "stored"
    /\ priority.computed
    /\ priority.has_user
    /\ ~priority.user.is_staff /\ ~priority.user.is_superuser
    /\ ~priority.user.is_premium
    /\ priority.user.videos_count > 50
    /\ priority.user.processing_priority = 10
    /\ priority.result = 6

(* ---------------------------------------------------------------------- *)
(* VideoProcessingService.process_video: one call, from the loading of    *)
(* the Video row to the stored renditions                                  *)
(* ---------------------------------------------------------------------- *)
OwnFile == "videos/tmp/own.mp4"
OtherFile == "videos/tmp/other.mp4"

(* what videos/tmp can hold: the job's own upload, another job's upload    *)
TmpFiles == {OwnFile, OtherFile}

(* a VideoFile row: the rendition of one profile                           *)
VideoFile(resolution, is_primary) ==
    [resolution |-> resolution, is_primary |-> is_primary]

(* VideoFile.save: a primary rendition first clears the flag on the        *)
(* job's other renditions, then the row is written                         *)
VideoFileSave(video_files, video_file) ==
    LET cleared == IF video_file.is_primary
                   THEN {[f EXCEPT !.is_primary = FALSE] : f \in video_files}
                   ELSE video_files
    IN  cleared \cup {video_file}

(* _save_results, the loop over result.encoded_files from index i on:      *)
(* failed results and results whose profile row is gone are skipped, the   *)
(* rendition is primary when its index in the list is the first            *)
RECURSIVE SaveEncoded(_, _, _, _)
SaveEncoded(i, encoded_files, found, video_files) ==
    IF i > Len(encoded_files) THEN video_files
    ELSE IF encoded_files[i].success /\ encoded_files[i].resolution \in found
    THEN SaveEncoded(i + 1, encoded_files, found,
             VideoFileSave(video_files,
                           VideoFile(encoded_files[i].resolution, i = 1)))
    ELSE SaveEncoded(i + 1, encoded_files, found, video_files)

(* the Video row fields process_video writes                               *)
LoadedRow ==
    [processing_status |-> "processing", processing_error |-> EmptyText,
     converted_files |-> << >>]

(* the VideoStream rows of the profiles whose stream was generated         *)
StreamRows(stream_type, profiles, outcome) ==
    {[stream_type |-> stream_type, profile |-> profiles[i]] :
        i \in {k \in 1..Len(profiles) : outcome[profiles[k]] = "success"}}

(* generate_hls_streams, generate_dash_streams: a generator that raises    *)
(* ends the loop over the profiles                                         *)
StreamsRaised(profiles, outcome) ==
    \E i \in 1..Len(profiles) : outcome[profiles[i]] = "raised"

(* _generate_streams up to its except clause: the rows written and whether *)
(* an exception reached the clause                                         *)
GeneratedStreams(profiles, generate_hls, generate_dash, hls, dash) ==
    IF ~generate_hls /\ ~generate_dash THEN [raised |-> FALSE, streams |-> {}]
    ELSE IF generate_hls /\ StreamsRaised(profiles, hls)
    THEN [raised |-> TRUE, streams |-> {}]
    ELSE LET hls_rows == IF generate_hls THEN StreamRows("hls", profiles, hls)
                         ELSE {}
         IN  IF generate_dash /\ StreamsRaised(profiles, dash)
             THEN [raised |-> TRUE, streams |-> hls_rows]
             ELSE [raised |-> FALSE,
                   streams |-> hls_rows \cup
                       (IF generate_dash THEN StreamRows("dash", profiles, dash)
                        ELSE {})]

(* the exception leaves process_video through its own handler              *)
StreamFailureEscapes(call, text) ==
    [call EXCEPT !.pc = "done", !.returned = FALSE,
                 !.row.processing_status = "error",
                 !.row.processing_error = text]

(* _generate_streams, except Exception: the failure is logged and the      *)
(* call goes on to _save_results                                           *)
StreamFailure(call, text) == [call EXCEPT !.pc = "saving"]

(* _save_results.  save_raised: "none", "early" (before the old            *)
(* renditions are deleted) or "late" (in the final save of the row)        *)
SavedResults(call, found, save_raised) ==
    LET stored == SaveEncoded(1, call.result.encoded_files, found, {})
    IN  IF save_raised = "early"
        THEN [call EXCEPT !.pc = "done", !.returned = FALSE]
        ELSE IF save_raised = "late"
        THEN [call EXCEPT !.pc = "done", !.returned = FALSE,
                          !.video_files = stored]
        ELSE [call EXCEPT !.pc = "done", !.returned = TRUE,
                          !.video_files = stored,
                          !.row = [processing_status |-> "completed",
                                   processing_error |-> EmptyText,
                                   converted_files |->
                                       ConvertedFiles(call.result.encoded_files,
                                                      found)]]

ProcessingFrame ==
    UNCHANGED <<dispatch, selector, encoder, pipeline, monitor, saves, priority,
                reports, settings, manifest, sweeper, notify>>

NoStreams == [raised |-> FALSE, streams |-> {}]

(* lines 83-113: the row is loaded, the source path resolved, the active   *)
(* settings and profiles read; a missing precondition returns False        *)
ProcessVideoLoad(temp_video_file, tmp, video_path, settings_active, profiles, video_files) ==
    /\ processing.pc = "idle"
    /\ video_path \in
         (IF temp_video_file = NoFile THEN {NoFile}
          ELSE IF VideoPaths([temp_video_file |-> temp_video_file], tmp) = {}
          THEN {NoFile}
          ELSE VideoPaths([temp_video_file |-> temp_video_file], tmp))
    /\ processing' =
         [pc |-> IF video_path # NoFile /\ settings_active /\ profiles # << >>
                 THEN "pipeline" ELSE "done",
          temp_video_file |-> temp_video_file, tmp |-> tmp,
          video_path |-> video_path, profiles |-> profiles,
          row |-> LoadedRow, video_files |-> video_files,
          result |-> FailureResult("", EmptyText), generated |-> NoStreams,
          found |-> {}, save_raised |-> "none", returned |-> FALSE]
    /\ ProcessingFrame

(* lines 115-137: the pipeline runs with parallel encoding; a failure      *)
(* result is saved as status "failed"                                      *)
ProcessVideoPipeline(source_width, source_height, outcome, order, raised_text) ==
    /\ processing.pc = "pipeline"
    /\ LET call == encode_multiple(source_width, source_height,
                       processing.profiles, outcome, order, FALSE, TRUE)
           result == PipelineProcess(EmptyText, TRUE, TRUE, call.results,
                                     call.raised, raised_text)
       IN  processing' =
             IF result.success
             THEN [processing EXCEPT !.pc = "streams", !.result = result]
             ELSE [processing EXCEPT
                       !.pc = "done", !.result = result,
                       !.row.processing_status = "failed",
                       !.row.processing_error =
                           <<result.error_stage, ": ">> \o result.error_message]
    /\ ProcessingFrame

(* line 140: _generate_streams                                             *)
GenerateStreams(generate_hls, generate_dash, hls, dash, text) ==
    /\ processing.pc = "streams"
    /\ LET generated == GeneratedStreams(processing.profiles, generate_hls,
                                         generate_dash, hls, dash)
           call == [processing EXCEPT !.generated = generated]
       IN  processing' = IF generated.raised THEN StreamFailure(call, text)
                         ELSE [call EXCEPT !.pc = "saving"]
    /\ ProcessingFrame

(* line 143: _save_results                                                 *)
SaveResults(found, save_raised) ==
    /\ processing.pc = "saving"
    /\ processing' =
         SavedResults([processing EXCEPT !.found = found,
                                         !.save_raised = save_raised],
                      found, save_raised)
    /\ ProcessingFrame

(* the renditions a job holds before the call: none, or those of an        *)
(* earlier run                                                             *)
EarlierVideoFiles == {{}, {VideoFile("360p", TRUE)}}

(* the active profiles a call finds: lists over two resolutions            *)
StreamResolutions == {"360p", "720p"}

StreamProfileLists ==
    {seq \in ProfileLists : ProfileSet(seq) \subseteq StreamResolutions}

NextProcessing ==
    \/ \E temp_video_file \in {NoFile, OwnFile}, tmp \in SUBSET TmpFiles,
          video_path \in TmpFiles \cup {NoFile}, settings_active \in BOOLEAN,
          profiles \in StreamProfileLists \cup {<< >>},
          video_files \in EarlierVideoFiles :
           ProcessVideoLoad(temp_video_file, tmp, video_path, settings_active,
                            profiles, video_files)
    \/ /\ processing.pc = "pipeline"
       /\ \E source_height \in {0, 360, 1080},
             outcome \in [ProfileSet(processing.profiles) -> Outcomes] :
             \E order \in CompletionOrders(
                     Len(get_suitable_profiles(1280, source_height,
                                               processing.profiles))) :
                ProcessVideoPipeline(1280, source_height, outcome, order,
                                     <<"[Errno 13] Permission denied">>)
    \/ /\ processing.pc = "streams"
       /\ \E generate_hls, generate_dash \in BOOLEAN,
             hls, dash \in [ProfileSet(processing.profiles) -> Outcomes] :
              GenerateStreams(generate_hls, generate_dash, hls, dash,
                              <<"[Errno 28] No space left on device">>)
    \/ /\ processing.pc = "saving"
       /\ \E found \in SUBSET ProfileSet(processing.profiles),
             save_raised \in {"none", "early", "late"} :
              SaveResults(found, save_raised)

SpecProcessing == Init /\ [][NextProcessing]_vars

(* what the call leaves behind when streaming is disabled                  *)
WithoutStreams ==
    SavedResults([processing EXCEPT !.pc = "saving", !.row = LoadedRow,
                                    !.returned = FALSE],
                 processing.found, processing.save_raised)

(* C21: HLS/DASH packaging never fails the job.  When the pipeline of a    *)
(* call succeeded, the status, error text and renditions the call leaves   *)
(* are those it leaves with streaming disabled, whether stream generation  *)
(* succeeded, failed or raised for each profile.                           *)
StreamsNeverFailTheJob ==
    (processing.pc = "done" /\ processing.result.success) =>
        /\ processing.row = WithoutStreams.row
        /\ processing.returned = WithoutStreams.returned
        /\ processing.video_files = WithoutStreams.video_files

(* a call whose stream generation raised completed the job                 *)
CompletedAfterStreamsRaised ==
    /\ processing.pc = "done"
    /\ processing.generated.raised
    /\ processing.row.processing_status = "completed"
    /\ processing.video_files # {}

(* C23: exactly one rendition per job is primary.  A job never has two     *)
(* renditions flagged primary, and a job that process_video completed has  *)
(* exactly one, whichever profiles failed and in whatever order the        *)
(* per-profile results were returned.                                      *)
ExactlyOnePrimaryRendition ==
    processing.pc # "idle" =>
        LET primary == {f \in processing.video_files : f.is_primary}
        IN  /\ Cardinality(primary) <= 1
            /\ (processing.pc = "done"
                  /\ processing.row.processing_status = "completed") =>
                   Cardinality(primary) = 1

(* C28: a run of job J only ever processes J's own source file.  When the  *)
(* file the row names is not in storage the call ends without running the  *)
(* pipeline; the pipeline is never given a file uploaded for another job.  *)
RunProcessesOwnFile ==
    processing.pc = "pipeline" =>
        /\ processing.video_path = processing.temp_video_file
        /\ processing.video_path \in processing.tmp

(* ---------------------------------------------------------------------- *)
(* The percent values one run of process_video_async reports               *)
(* ---------------------------------------------------------------------- *)
(* the longest list of suitable profiles a reported run encodes            *)
MaxReportProfiles == 4

(* int((i / total) * 100)                                                  *)
Percent(i, total) == (i * 100) \div total

(* the pipeline's encoding callback: 35 + int(p * 0.55)                    *)
EncodingPercent(p) == 35 + (p * 55) \div 100

Reported(run, percent) == [run EXCEPT !.percents = Append(@, percent)]

RunEnded(run, succeeded) ==
    [run EXCEPT !.pc = "ended", !.succeeded = succeeded]

ReportsFrame ==
    UNCHANGED <<dispatch, selector, encoder, pipeline, monitor, saves, priority,
                processing, settings, manifest, sweeper, notify>>

(* process_video_async: the task reports 10 before it calls process_video  *)
TaskStart(total, parallel) ==
    /\ reports.pc = "idle"
    /\ reports' = [pc |-> "validation", percents |-> <<10>>, total |-> total,
                   parallel |-> parallel /\ total > 1, encoded |-> 0,
                   any_success |-> FALSE, succeeded |-> FALSE]
    /\ ReportsFrame

(* stage 1: 5 is reported, then the source is validated                    *)
ReportValidation(valid) ==
    /\ reports.pc = "validation"
    /\ reports' = IF valid THEN [Reported(reports, 5) EXCEPT !.pc = "analysis"]
                  ELSE RunEnded(Reported(reports, 5), FALSE)
    /\ ReportsFrame

(* 10 is reported, then the source is inspected                            *)
ReportAnalysis ==
    /\ reports.pc = "analysis"
    /\ reports' = [Reported(reports, 10) EXCEPT !.pc = "poster"]
    /\ ReportsFrame

(* stage 2: 15 is reported, then the poster is extracted                   *)
ReportPoster(extracted) ==
    /\ reports.pc = "poster"
    /\ reports' = IF extracted
                  THEN [Reported(reports, 15) EXCEPT !.pc = "preview"]
                  ELSE RunEnded(Reported(reports, 15), FALSE)
    /\ ReportsFrame

(* stage 3: 25 is reported, then the preview is generated                  *)
ReportPreview(generated) ==
    /\ reports.pc = "preview"
    /\ reports' = IF generated
                  THEN [Reported(reports, 25) EXCEPT !.pc = "encoding"]
                  ELSE RunEnded(Reported(reports, 25), FALSE)
    /\ ReportsFrame

(* stage 4: 35 is reported and the encoder is started                      *)
ReportEncodingStart ==
    /\ reports.pc = "encoding"
    /\ reports' = [Reported(reports, 35) EXCEPT !.pc = "profiles"]
    /\ ReportsFrame

(* the encoding loop has ended: without a successful profile the run       *)
(* fails, else it goes on to finalization                                  *)
EncodingEnded(run) ==
    IF run.any_success THEN [run EXCEPT !.pc = "finalization"]
    ELSE RunEnded(run, FALSE)

(* _encode_sequential: the percent of the profiles already encoded is      *)
(* reported before each profile; a failed profile ends the loop            *)
ReportSequentialProfile(success) ==
    /\ reports.pc = "profiles"
    /\ ~reports.parallel
    /\ LET run == [Reported(reports,
                         EncodingPercent(Percent(reports.encoded, reports.total)))
                     EXCEPT !.encoded = @ + 1,
                            !.any_success = @ \/ success]
       IN  reports' = IF ~success \/ run.encoded = run.total
                      THEN EncodingEnded(run) ELSE run
    /\ ReportsFrame

(* _encode_parallel: the percent of the completed profiles is reported     *)
(* after each completion                                                   *)
ReportParallelProfile(success) ==
    /\ reports.pc = "profiles"
    /\ reports.parallel
    /\ LET run == [reports EXCEPT !.encoded = @ + 1,
                                  !.any_success = @ \/ success]
           told == Reported(run, EncodingPercent(Percent(run.encoded, run.total)))
       IN  reports' = IF told.encoded = told.total THEN EncodingEnded(told)
                      ELSE told
    /\ ReportsFrame

(* stage 5: 95 and 100 are reported and the pipeline returns its result;   *)
(* the run succeeds when _save_results then stores it                      *)
ReportFinalization(saved) ==
    /\ reports.pc = "finalization"
    /\ reports' = RunEnded(Reported(Reported(reports, 95), 100), saved)
    /\ ReportsFrame

NextReports ==
    \/ \E total \in 1..MaxReportProfiles, parallel \in BOOLEAN :
           TaskStart(total, parallel)
    \/ \E valid \in BOOLEAN : ReportValidation(valid)
    \/ ReportAnalysis
    \/ \E extracted \in BOOLEAN : ReportPoster(extracted)
    \/ \E generated \in BOOLEAN : ReportPreview(generated)
    \/ ReportEncodingStart
    \/ \E success \in BOOLEAN : ReportSequentialProfile(success)
    \/ \E success \in BOOLEAN : ReportParallelProfile(success)
    \/ \E saved \in BOOLEAN : ReportFinalization(saved)

SpecReports == Init /\ [][NextReports]_vars

(* C22: the percent values reported for one run (the task's initial        *)
(* report, then the pipeline's stage and per-profile reports) are          *)
(* non-decreasing and within 0..100, in sequential and parallel mode and   *)
(* for any number of profiles, and 100 is reported only by a run that      *)
(* succeeds.                                                               *)
PercentIsMonotonic ==
    reports.pc # "idle" =>
        /\ \A i \in 1..Len(reports.percents) :
               /\ reports.percents[i] >= 0
               /\ reports.percents[i] <= 100
               /\ i > 1 => reports.percents[i - 1] <= reports.percents[i]
        /\ (reports.pc = "ended"
              /\ \E i \in 1..Len(reports.percents) : reports.percents[i] = 100)
             => reports.succeeded

(* ---------------------------------------------------------------------- *)
(* MetadataExtractionSettings.save: the records and the saves in progress  *)
(* ---------------------------------------------------------------------- *)
max_retries == 3

SettingsRecords == {1, 2}
SettingsSavers == {1, 2}

IdleSave == [pc |-> "idle", record |-> 1, is_active |-> FALSE, attempt |-> 0]

SettingsFrame ==
    UNCHANGED <<dispatch, selector, encoder, pipeline, monitor, saves, priority,
                processing, reports, manifest, sweeper, notify>>

(* the table before the first save: no record                              *)
SettingsStart ==
    /\ settings.pc = "idle"
    /\ settings' = [pc |-> "stored", existing |-> {}, active |-> {},
                    savers |-> [t \in SettingsSavers |-> IdleSave]]
    /\ SettingsFrame

(* save() is called on an instance of record r whose flag is is_active:    *)
(* an active instance goes to clear the others, an inactive one is written *)
SettingsSaveCalled(t, r, is_active) ==
    /\ settings.pc = "stored"
    /\ settings.savers[t].pc = "idle"
    /\ \A u \in SettingsSavers :
           settings.savers[u].pc # "idle" => settings.savers[u].record # r
    /\ settings' =
         [settings EXCEPT !.savers[t] =
              [pc |-> IF is_active THEN "clearing" ELSE "writing",
               record |-> r, is_active |-> is_active, attempt |-> 0]]
    /\ SettingsFrame

(* one attempt of the loop: the update clears the flag on the other        *)
(* active records (on all of them when the instance has no pk yet); an     *)
(* attempt that raises is repeated, and after the last one the save goes   *)
(* on                                                                      *)
SettingsClearOthers(t, raised) ==
    /\ settings.pc = "stored"
    /\ settings.savers[t].pc = "clearing"
    /\ LET saver == settings.savers[t]
       IN  settings' =
             IF ~raised
             THEN [settings EXCEPT
                       !.active = IF saver.record \in settings.existing
                                  THEN @ \cap {saver.record} ELSE {},
                       !.savers[t].pc = "writing"]
             ELSE IF saver.attempt < max_retries - 1
             THEN [settings EXCEPT !.savers[t].attempt = @ + 1]
             ELSE [settings EXCEPT !.savers[t].pc = "writing"]
    /\ SettingsFrame

(* super().save(): the record is written with the instance's flag          *)
SettingsWrite(t) ==
    /\ settings.pc = "stored"
    /\ settings.savers[t].pc = "writing"
    /\ LET saver == settings.savers[t]
       IN  settings' =
             [settings EXCEPT
                  !.existing = @ \cup {saver.record},
                  !.active = IF saver.is_active THEN @ \cup {saver.record}
                             ELSE @ \ {saver.record},
                  !.savers[t] = IdleSave]
    /\ SettingsFrame

NextSettings ==
    \/ SettingsStart
    \/ \E t \in SettingsSavers, r \in SettingsRecords, is_active \in BOOLEAN :
           SettingsSaveCalled(t, r, is_active)
    \/ \E t \in SettingsSavers, raised \in BOOLEAN : SettingsClearOthers(t, raised)
    \/ \E t \in SettingsSavers : SettingsWrite(t)

SpecSettings == Init /\ [][NextSettings]_vars

(* C24: only one metadata-extraction settings record is active at a time.  *)
(* After any sequence or interleaving of saves, including saves during     *)
(* which clearing the flag on the other records keeps failing, at most one *)
(* record has the active flag set.                                         *)
AtMostOneActiveSettings ==
    settings.pc = "stored" => Cardinality(settings.active) <= 1

(* ---------------------------------------------------------------------- *)
(* HLSService.generate_master_playlist and DASHService.generate_master_mpd *)
(* ---------------------------------------------------------------------- *)
(* the longest list of per-profile outputs a generator is given            *)
MaxOutputs == 3

(* encoding profiles: the words of the name and the configured bitrate in  *)
(* kbps                                                                    *)
StreamProfile(name, bitrate) == [name |-> name, bitrate |-> bitrate]

StreamProfiles ==
    {StreamProfile(<<"360p", "Mobile">>, 800), StreamProfile(<<"720p", "HD">>, 2500),
     StreamProfile(<<"1080p", "Full HD">>, 5000),
     StreamProfile(<<"1440p", "QHD">>, 9000)}

(* the keys of bitrate_map in the order the loop visits them               *)
bitrate_map_keys == <<"240p", "360p", "480p", "720p", "1080p">>

bitrate_map(key) ==
    CASE key = "240p" -> 300
      [] key = "360p" -> 500
      [] key = "480p" -> 1000
      [] key = "720p" -> 2500
      [] key = "1080p" -> 5000

(* key in profile_name                                                     *)
Contains(profile_name, key) ==
    \E i \in 1..Len(profile_name) : profile_name[i] = key

(* the bitrate the profile was configured with                             *)
ConfiguredBitrate(profile_name) ==
    (CHOOSE p \in StreamProfiles : p.name = profile_name).bitrate

(* _extract_bitrate: the bitrate of the first key found in the name, else  *)
(* the default                                                             *)
extract_bitrate(profile_name) ==
    LET found == {i \in 1..Len(bitrate_map_keys) :
                      Contains(profile_name, bitrate_map_keys[i])}
    IN  IF found = {} THEN 1000
        ELSE bitrate_map(bitrate_map_keys[
                 CHOOSE i \in found : \A k \in found : i <= k])

(* sorted(..., reverse=True): o goes in before the first entry with a      *)
(* smaller key, entries with equal keys keep their order                   *)
InsertDescending(sorted, o) ==
    LET smaller == {i \in 1..Len(sorted) :
                        extract_bitrate(sorted[i].profile) < extract_bitrate(o.profile)}
        at == IF smaller = {} THEN Len(sorted) + 1
              ELSE CHOOSE i \in smaller : \A k \in smaller : i <= k
    IN  SubSeq(sorted, 1, at - 1) \o <<o>> \o SubSeq(sorted, at, Len(sorted))

RECURSIVE SortedDescending(_, _, _)
SortedDescending(i, outputs, sorted) ==
    IF i > Len(outputs) THEN sorted
    ELSE SortedDescending(i + 1, outputs, InsertDescending(sorted, outputs[i]))

(* the successful outputs, sorted by the extracted bitrate, highest first  *)
sorted_outputs(outputs) ==
    SortedDescending(1, SelectSeq(outputs, LAMBDA o : o.success), << >>)

NoManifest == [returned |-> FALSE, written |-> FALSE, listed |-> << >>]

(* the body both generators share: the directory is made, the successful   *)
(* outputs are sorted, one entry is written for each; raised: an exception *)
(* reached the except clause before the file was opened                    *)
MasterManifest(outputs, raised) ==
    IF raised \/ sorted_outputs(outputs) = << >> THEN NoManifest
    ELSE [returned |-> TRUE, written |-> TRUE,
          listed |-> [i \in 1..Len(sorted_outputs(outputs)) |->
                         [profile |-> sorted_outputs(outputs)[i].profile,
                          bandwidth |->
                              extract_bitrate(sorted_outputs(outputs)[i].profile)
                              * 1000]]]

generate_master_playlist(hls_outputs, raised) == MasterManifest(hls_outputs, raised)

generate_master_mpd(dash_outputs, raised) == MasterManifest(dash_outputs, raised)

(* the output lists a generator is given: one output for each of some      *)
(* profiles, successful or not                                             *)
OutputLists ==
    UNION {{outputs \in [1..n -> [profile : {q.name : q \in StreamProfiles},
                                  success : BOOLEAN]] :
               \A i, k \in 1..n : i # k => outputs[i].profile # outputs[k].profile} :
           n \in 0..MaxOutputs}

ManifestFrame ==
    UNCHANGED <<dispatch, selector, encoder, pipeline, monitor, saves, priority,
                processing, reports, settings, sweeper, notify>>

(* the per-profile outputs of one job have been collected                  *)
ManifestStart(outputs, kind) ==
    /\ manifest.pc = "idle"
    /\ manifest' = [pc |-> "called", kind |-> kind, outputs |-> outputs,
                    raised |-> FALSE, result |-> NoManifest]
    /\ ManifestFrame

GenerateMasterPlaylist(raised) ==
    /\ manifest.pc = "called"
    /\ manifest.kind = "hls"
    /\ manifest' = [manifest EXCEPT
                        !.pc = "returned", !.raised = raised,
                        !.result = generate_master_playlist(manifest.outputs, raised)]
    /\ ManifestFrame

GenerateMasterMpd(raised) ==
    /\ manifest.pc = "called"
    /\ manifest.kind = "dash"
    /\ manifest' = [manifest EXCEPT
                        !.pc = "returned", !.raised = raised,
                        !.result = generate_master_mpd(manifest.outputs, raised)]
    /\ ManifestFrame

NextManifest ==
    \/ \E outputs \in OutputLists, kind \in {"hls", "dash"} :
           ManifestStart(outputs, kind)
    \/ \E raised \in BOOLEAN : GenerateMasterPlaylist(raised)
    \/ \E raised \in BOOLEAN : GenerateMasterMpd(raised)

SpecManifest == Init /\ [][NextManifest]_vars

SuccessfulProfiles ==
    {manifest.outputs[i].profile :
        i \in {k \in 1..Len(manifest.outputs) : manifest.outputs[k].success}}

(* C25: master-manifest generation given no successful output returns      *)
(* failure and writes no file; given at least one it returns success and   *)
(* the manifest lists exactly the successful profiles, each once, ordered  *)
(* by descending profile bitrate.                                          *)
MasterListsSuccessfulByBitrate ==
    (manifest.pc = "returned" /\ ~manifest.raised) =>
        LET listed == manifest.result.listed
        IN  IF SuccessfulProfiles = {}
            THEN ~manifest.result.returned /\ ~manifest.result.written
            ELSE /\ manifest.result.returned
                 /\ manifest.result.written
                 /\ {listed[i].profile : i \in 1..Len(listed)} = SuccessfulProfiles
                 /\ Len(listed) = Cardinality(SuccessfulProfiles)
                 /\ \A i \in 1..Len(listed) - 1 :
                        ConfiguredBitrate(listed[i].profile)
                            >= ConfiguredBitrate(listed[i + 1].profile)

(* C26: with cleanup-on-error enabled, when a run returns a failure result *)
(* at any stage, including a failure caused by an exception raised in the  *)
(* middle of a stage, none of the files written during the run (poster,    *)
(* preview, encoded outputs) remain.                                       *)
FailedRunLeavesNoFiles ==
    (pipeline.pc = "done" /\ ~pipeline.result.success
        /\ pipeline.cleanup_on_error) => pipeline.files = {}

(* ---------------------------------------------------------------------- *)
(* process_pending_videos over many pending jobs: job J, whose source file *)
(* exists, among pending jobs whose source file is missing                 *)
(* ---------------------------------------------------------------------- *)
(* the most pending jobs with a missing file created after J               *)
MaxNewer == 2

(* the most pending jobs with a missing file created before J              *)
MaxOlder == SweepLimit + 1

SweeperFrame ==
    UNCHANGED <<dispatch, selector, encoder, pipeline, monitor, saves, priority,
                processing, reports, settings, manifest, notify>>

(* J is pending with its file in storage; older and newer count the        *)
(* pending jobs created before and after it that name a missing file       *)
SweeperStart(older, newer) ==
    /\ sweeper.pc = "idle"
    /\ sweeper' = [pc |-> "stored", older |-> older, newer |-> newer,
                   processing_status |-> "pending",
                   processing_error |-> EmptyText, queued |-> 0]
    /\ SweeperFrame

(* step 2 query: the pending jobs with a file reference, oldest first,     *)
(* cut at limit; J is among them when fewer than limit such jobs are older *)
IsCandidate(limit) ==
    /\ sweeper.processing_status = "pending"
    /\ sweeper.older < limit

(* one run of the task: the candidates whose file is missing are skipped   *)
(* and stay pending; J, when a candidate, is flipped to processing and     *)
(* enqueued, and put back to pending when the enqueue raises               *)
SweeperSweep(broker_works) ==
    /\ sweeper.pc = "stored"
    /\ sweeper' =
         IF ~IsCandidate(SweepLimit) THEN sweeper
         ELSE IF broker_works
         THEN [sweeper EXCEPT !.processing_status = "processing",
                              !.queued = @ + 1]
         ELSE [sweeper EXCEPT !.processing_status = "pending",
                              !.processing_error = EnqueueErrorText]
    /\ SweeperFrame

NextSweeper ==
    \/ \E older \in 0..MaxOlder, newer \in 0..MaxNewer : SweeperStart(older, newer)
    \/ \E broker_works \in BOOLEAN : SweeperSweep(broker_works)

SpecSweeper == Init /\ [][NextSweeper]_vars

(* the beat schedule repeats the sweep, and the broker works               *)
SpecSweeperFair == SpecSweeper /\ WF_vars(SweeperSweep(TRUE))

(* C27: under fair repetition of the sweep with a working broker, a job    *)
(* that remains pending with an existing source file is eventually         *)
(* enqueued, however many other pending jobs, older or newer, name a       *)
(* source file that is missing.                                            *)
PendingJobEventuallyEnqueued ==
    (sweeper.pc = "stored" /\ sweeper.processing_status = "pending")
        ~> (sweeper.pc = "stored" /\ sweeper.queued > 0)

(* ---------------------------------------------------------------------- *)
(* Alerts with their notification sends and status calls                   *)
(* ---------------------------------------------------------------------- *)
NotifiedAlerts == {1, 2}

(* an Alert row, or the instance of it a caller holds                      *)
AlertRow(status, email_sent, webhook_sent) ==
    [status |-> status, email_sent |-> email_sent, webhook_sent |-> webhook_sent]

(* an alert that is not created yet, and the sender of no alert            *)
NoAlert == [pc |-> "none", row |-> AlertRow("none", FALSE, FALSE),
            instance |-> AlertRow("none", FALSE, FALSE)]

NotifyFrame ==
    UNCHANGED <<dispatch, selector, encoder, pipeline, monitor, saves, priority,
                processing, reports, settings, manifest, sweeper>>

NotifyStart ==
    /\ notify.pc = "idle"
    /\ notify' = [pc |-> "running", alerts |-> [id \in NotifiedAlerts |-> NoAlert]]
    /\ NotifyFrame

(* _create_alert: the row is created active and _send_notifications is     *)
(* given the instance                                                      *)
CreateAlert(id) ==
    /\ notify.pc = "running"
    /\ notify.alerts[id].pc = "none"
    /\ notify' = [notify EXCEPT !.alerts[id] =
                      [pc |-> "email", row |-> AlertRow("active", FALSE, FALSE),
                       instance |-> AlertRow("active", FALSE, FALSE)]]
    /\ NotifyFrame

(* _send_email_alert: after the mail is sent the instance is flagged and   *)
(* saved with all its fields; a send that raises is logged                 *)
SendEmailAlert(id, sent) ==
    /\ notify.pc = "running"
    /\ notify.alerts[id].pc = "email"
    /\ LET flagged == [notify.alerts[id].instance EXCEPT !.email_sent = TRUE]
       IN  notify' =
             IF sent
             THEN [notify EXCEPT !.alerts[id] =
                       [pc |-> "webhook", row |-> flagged, instance |-> flagged]]
             ELSE [notify EXCEPT !.alerts[id].pc = "webhook"]
    /\ NotifyFrame

(* _send_webhook_alert: the same with the webhook flag                     *)
SendWebhookAlert(id, sent) ==
    /\ notify.pc = "running"
    /\ notify.alerts[id].pc = "webhook"
    /\ LET flagged == [notify.alerts[id].instance EXCEPT !.webhook_sent = TRUE]
       IN  notify' =
             IF sent
             THEN [notify EXCEPT !.alerts[id] =
                       [pc |-> "sent", row |-> flagged, instance |-> flagged]]
             ELSE [notify EXCEPT !.alerts[id].pc = "sent"]
    /\ NotifyFrame

(* _resolve_alerts_if_needed at a tick that finds the value below the      *)
(* threshold: every active alert of the rule is loaded and resolved        *)
ResolveAlertsIfNeeded ==
    /\ notify.pc = "running"
    /\ notify' = [notify EXCEPT !.alerts =
                      [id \in NotifiedAlerts |->
                          IF @[id].row.status = "active"
                          THEN [@[id] EXCEPT !.row.status = "resolved"]
                          ELSE @[id]]]
    /\ NotifyFrame

(* AlertService.acknowledge_alert: the alert is loaded by id and           *)
(* acknowledged, whatever its status                                       *)
acknowledge_alert(id) ==
    /\ notify.pc = "running"
    /\ notify.alerts[id].pc # "none"
    /\ notify' = [notify EXCEPT !.alerts[id].row.status = "acknowledged"]
    /\ NotifyFrame

(* the admin action acknowledge_alerts: only an active alert               *)
acknowledge_alerts(id) ==
    /\ notify.pc = "running"
    /\ notify.alerts[id].row.status = "active"
    /\ notify' = [notify EXCEPT !.alerts[id].row.status = "acknowledged"]
    /\ NotifyFrame

NextNotify ==
    \/ NotifyStart
    \/ \E id \in NotifiedAlerts : CreateAlert(id)
    \/ \E id \in NotifiedAlerts, sent \in BOOLEAN : SendEmailAlert(id, sent)
    \/ \E id \in NotifiedAlerts, sent \in BOOLEAN : SendWebhookAlert(id, sent)
    \/ ResolveAlertsIfNeeded
    \/ \E id \in NotifiedAlerts : acknowledge_alert(id)
    \/ \E id \in NotifiedAlerts : acknowledge_alerts(id)

SpecNotify == Init /\ [][NextNotify]_vars

(* C29: alert resolution is final.  Once the status of an alert is         *)
(* "resolved" it never becomes "active" or "acknowledged" again, under any *)
(* interleaving of evaluation ticks, notification sends and acknowledge    *)
(* calls.                                                                  *)
ResolvedIsFinal ==
    [][notify.pc = "running" =>
          \A id \in NotifiedAlerts :
              notify.alerts[id].row.status = "resolved" =>
                  notify'.alerts[id].row.status = "resolved"]_vars

(* C30: the high-volume boost never lowers a priority.  For every          *)
(* non-staff, non-premium uploader with more than 50 prior uploads and any *)
(* stored processing priority in 0..10, the computed job priority is       *)
(* greater than or equal to the stored processing priority.                *)
BoostNeverLowersPriority ==
    (/\ priority.pc = "stored"
     /\ priority.computed
     /\ priority.has_user
     /\ ~priority.user.is_staff /\ ~priority.user.is_superuser
     /\ ~priority.user.is_premium
     /\ priority.user.videos_count > 50
     /\ priority.user.processing_priority \in 0..10)
        => priority.result >= priority.user.processing_priority

====
